---- MODULE Spec2Model ----
(***************************************************************************)
(* A model of the Neuroplayer-to-LabChart exporter:                        *)
(*   - group_ndf_files_into_sessions (ndf_to_text_converter.py),           *)
(*   - LabChartExporter.export_interval / export_channel /                 *)
(*     export_multi_channel (labchart_exporter.py),                        *)
(*   - NDFReader, SimpleBinarySignalReader, TextSignalReader               *)
(*     (ndf_reader.py),                                                    *)
(*   - NDFToTextConverter and the session loop of bulk_convert_ndf_to_text *)
(*     (ndf_to_text_converter.py); there ndf_files is the session, exporter*)
(*     the converter with the arguments of the call, fs the session        *)
(*     directory, written who created each of its files and calls the      *)
(*     number of archives of the session processed so far.                 *)
(* Times of the session grouper are whole seconds.  Times of the exporter  *)
(* are counted in ticks of a quarter nanosecond, so that round(t, 9) is a  *)
(* real rounding and 1/512 s and 1/128 s are whole numbers of ticks.       *)
(***************************************************************************)
EXTENDS Integers, Sequences, FiniteSets, TLC

VARIABLES
    ndf_files,      \* group_ndf_files_into_sessions: the argument ndf_files
    gap_threshold,  \* group_ndf_files_into_sessions: the argument gap_threshold
    grouping,       \* its outcome: [raised, sessions], or NotCalled
    exporter,       \* the LabChartExporter instance (its attributes)
    fs,             \* the output directory: target -> NoFile or the file's lines
    written,        \* per target: which path created the file, and the sample
                    \* lists export_interval has written to it since
    last_call,      \* the last exporter call: its arguments and its outcome
    calls,          \* number of exporter calls made so far
    disk,           \* the input file of a reader: what the path holds
    reader          \* the NDFReader instance (its attributes)

vars == <<ndf_files, gap_threshold, grouping, exporter, fs, written, last_call, calls, disk, reader>>

groupVars == <<ndf_files, gap_threshold, grouping>>
exportVars == <<exporter, fs, written, last_call, calls>>
readVars == <<disk, reader>>

\* Python's None, where the value is otherwise a natural number.
None == -1

(***************************************************************************)
(* Bounds of the model.                                                    *)
(***************************************************************************)
MaxFiles == 3
MaxTs == 3
MaxThreshold == 1

\* Durations get_file_duration may report (seconds), or None.
Durations == {None, 0, 1}

(***************************************************************************)
(* Generic helpers.                                                        *)
(***************************************************************************)
Range(s) == {s[i] : i \in DOMAIN s}

RECURSIVE SeqsUpTo(_, _)
\* All sequences over S of length at most n.
SeqsUpTo(S, n) ==
    IF n = 0 THEN {<<>>}
    ELSE LET shorter == SeqsUpTo(S, n - 1)
         IN shorter \cup {Append(s, x) : s \in {t \in shorter : Len(t) = n - 1}, x \in S}

RECURSIVE Flatten(_)
\* Concatenation of a sequence of sequences.
Flatten(ss) == IF ss = <<>> THEN <<>> ELSE Head(ss) \o Flatten(Tail(ss))

\* Insert x into the sorted sequence s after every element whose key is <= x's:
\* one step of a stable sort on Key.
RECURSIVE InsertByKey(_, _, _)
InsertByKey(s, x, k) ==
    IF s = <<>> THEN <<x>>
    ELSE IF s[Len(s)][k] <= x[k] THEN Append(s, x)
    ELSE Append(InsertByKey(SubSeq(s, 1, Len(s) - 1), x, k), s[Len(s)])

RECURSIVE StableSortByKey(_, _)
\* list.sort(key=lambda x: x[k]): ascending on field k, equal keys keep their order.
StableSortByKey(s, k) ==
    IF s = <<>> THEN <<>>
    ELSE InsertByKey(StableSortByKey(SubSeq(s, 1, Len(s) - 1), k), s[Len(s)], k)

(***************************************************************************)
(* Session grouping.                                                       *)
(*                                                                         *)
(* An input file is [name, ts, dur, exists]: name identifies the path, ts  *)
(* is what NDFReader.get_archive_start_time returns for it (None when the  *)
(* name carries no timestamp), dur what get_file_duration returns, and     *)
(* exists says whether the path can be opened.                             *)
(***************************************************************************)
get_archive_start_time(f) == f.ts

get_file_duration(f) == f.dur

NotCalled == [raised |-> "NotCalled", sessions |-> <<>>]

Returned(sessions) == [raised |-> "None", sessions |-> sessions]

Raised(exc) == [raised |-> exc, sessions |-> <<>>]

\* The loop of lines 299-312: one NDFReader per path, paths without a timestamp
\* skipped; the tuples (timestamp, duration, filepath) in input order.
RECURSIVE files_with_data(_)
files_with_data(files) ==
    IF files = <<>> THEN <<>>
    ELSE LET f == files[Len(files)]
             rest == files_with_data(SubSeq(files, 1, Len(files) - 1))
         IN IF get_archive_start_time(f) = None THEN rest
            ELSE Append(rest, [ts |-> get_archive_start_time(f),
                               dur |-> get_file_duration(f),
                               filepath |-> f.name])

\* Expected end time of the previous file (lines 329-334).
prev_end_time(prev) ==
    IF prev.dur # None THEN prev.ts + prev.dur ELSE prev.ts

\* Mutant: a gap equal to the threshold splits too.
StartsNewSession_AtThreshold(gap, threshold) == gap >= threshold

\* The split test of line 339.
StartsNewSession(gap, threshold) == gap > threshold

\* Mutant: the last session is not appended.
RECURSIVE GroupLoop_ForgetsLast(_, _, _, _, _)
GroupLoop_ForgetsLast(fwd, i, sessions, current_session, threshold) ==
    IF i > Len(fwd) THEN sessions
    ELSE LET gap == fwd[i].ts - prev_end_time(fwd[i - 1])
         IN IF StartsNewSession(gap, threshold)
            THEN GroupLoop_ForgetsLast(fwd, i + 1, Append(sessions, current_session),
                                       <<fwd[i].filepath>>, threshold)
            ELSE GroupLoop_ForgetsLast(fwd, i + 1, sessions,
                                       Append(current_session, fwd[i].filepath), threshold)

\* The loop of lines 325-349 from index i on, then line 352.
RECURSIVE GroupLoop(_, _, _, _, _)
GroupLoop(fwd, i, sessions, current_session, threshold) ==
    IF i > Len(fwd) THEN Append(sessions, current_session)
    ELSE LET gap == fwd[i].ts - prev_end_time(fwd[i - 1])
         IN IF StartsNewSession(gap, threshold)
            THEN GroupLoop(fwd, i + 1, Append(sessions, current_session),
                           <<fwd[i].filepath>>, threshold)
            ELSE GroupLoop(fwd, i + 1, sessions,
                           Append(current_session, fwd[i].filepath), threshold)

\* Mutant: the files are grouped in the order given.
SortFilesWithData_InputOrder(fwd) == fwd

\* Line 319.
SortFilesWithData(fwd) == StableSortByKey(fwd, "ts")

\* Mutant: the guard of lines 314-316 is missing.
NoFilesGuard_Missing(fwd) == FALSE

\* Lines 314-316: no file with a timestamp gives the empty list.
NoFilesGuard(fwd) == fwd = <<>>

\* Lines 314-358.
GroupFilesWithData(fwd, threshold) ==
    IF NoFilesGuard(fwd) THEN Returned(<<>>)
    ELSE IF fwd = <<>> THEN Raised("IndexError")  \* files_with_data[0] of line 323
    ELSE LET sorted == SortFilesWithData(fwd)
         IN Returned(GroupLoop(sorted, 2, <<>>, <<sorted[1].filepath>>, threshold))

\* group_ndf_files_into_sessions(ndf_files, gap_threshold).
group_ndf_files_into_sessions(files, threshold) ==
    IF files = <<>> THEN Returned(<<>>)
    ELSE IF \E i \in DOMAIN files : ~files[i].exists
         THEN Raised("FileNotFoundError")  \* NDFReader(filepath) opens the path
    ELSE GroupFilesWithData(files_with_data(files), threshold)

\* The inputs: up to n paths, named by their place in the list, of which
\* at most one cannot be opened.
FileAttrs == [ts : {None} \cup (0 .. MaxTs), dur : Durations]

FileLists(n) ==
    { [i \in 1 .. Len(attrs) |->
          [name |-> i, ts |-> attrs[i].ts, dur |-> attrs[i].dur, exists |-> i # missing]]
      : attrs \in SeqsUpTo(FileAttrs, n), missing \in 0 .. n }

\* No reader has been given a file.
ReaderIdle ==
    /\ disk = [exists |-> FALSE]
    /\ reader = [constructed |-> FALSE]

ExporterIdle ==
    /\ exporter = [constructed |-> FALSE]
    /\ fs = <<>>
    /\ written = <<>>
    /\ last_call = [op |-> "none"]
    /\ calls = 0

InitGroup ==
    /\ ndf_files \in FileLists(MaxFiles)
    /\ gap_threshold \in 0 .. MaxThreshold
    /\ grouping = NotCalled
    /\ ExporterIdle
    /\ ReaderIdle

GroupSessions ==
    /\ grouping = NotCalled
    /\ grouping' = group_ndf_files_into_sessions(ndf_files, gap_threshold)
    /\ UNCHANGED <<ndf_files, gap_threshold, exportVars, readVars>>

NextGroup == GroupSessions

SpecGroup == InitGroup /\ [][NextGroup]_vars

(***************************************************************************)
(* LabChartExporter.                                                       *)
(*                                                                         *)
(* A time is a whole number of ticks; a voltage is a whole number of       *)
(* 1/65536 mV (counts times range_mV, the exact value of                   *)
(* counts * mV_per_count).  A file is the sequence of its lines; a header  *)
(* line "Key= value" is [key, sep |-> "= ", fields |-> <<value>>] and a    *)
(* data line is [key |-> "", sep, fields]: its fields joined by sep.       *)
(***************************************************************************)
\* round(sample_time, 9) keeps whole nanoseconds (line 290).
NsPerSecond == 1000000000

\* Ticks per nanosecond: the resolution of the times of the model.
TicksPerNs == 4

\* 1.0 / rate seconds, in ticks (lines 172 and 275).
SamplePeriod(rate) == (NsPerSecond \div rate) * TicksPerNs

\* Ticks per microsecond: the resolution of a formatted time.
TicksPerMicrosecond == 1000 * TicksPerNs

\* The nearest whole number to a / b (b > 0), a tie going to the even one, as
\* round() and the format specifications round.
RoundHalfEven(a, b) ==
    LET q == a \div b
        r == a % b
    IN IF 2 * r < b THEN q
       ELSE IF 2 * r > b THEN q + 1
       ELSE IF q % 2 = 0 THEN q ELSE q + 1

\* round(sample_time, 9) of line 290: the time to the nearest nanosecond.
Round9(t) == RoundHalfEven(t, TicksPerNs) * TicksPerNs

RECURSIVE Pow10(_)
Pow10(n) == IF n = 0 THEN 1 ELSE 10 * Pow10(n - 1)

RECURSIVE ZeroPad(_, _)
\* The decimal digits of n >= 0, at least w of them.
ZeroPad(n, w) ==
    IF w <= 1 \/ n >= Pow10(w - 1) THEN ToString(n) ELSE "0" \o ZeroPad(n, w - 1)

\* f"{x:.<d>f}" for the number scaled / 10^d, with point as decimal separator;
\* negative says that x is below zero (a negative x that rounds to zero keeps
\* its sign).
FixedPoint(scaled, negative, d, point) ==
    LET a == IF scaled < 0 THEN -scaled ELSE scaled
    IN (IF negative THEN "-" ELSE "") \o ToString(a \div Pow10(d)) \o point
           \o ZeroPad(a % Pow10(d), d)

\* Voltages are formatted to 1/10000 mV: 10000 / 65536 = 625 / 4096.
VoltScaleNum == 625
VoltScaleDen == 4096

\* value * 625 / 4096 rounded, without leaving 32 bits.
ScaledVoltage(value) ==
    LET q == value \div VoltScaleDen
        r == value % VoltScaleDen
        whole == q * VoltScaleNum + (r * VoltScaleNum) \div VoltScaleDen
        rest == (r * VoltScaleNum) % VoltScaleDen
    IN IF 2 * rest < VoltScaleDen THEN whole
       ELSE IF 2 * rest > VoltScaleDen THEN whole + 1
       ELSE IF whole % 2 = 0 THEN whole ELSE whole + 1

\* LabChartExporter._format_value(value, is_time).
format_value(self, value, is_time) ==
    LET point == IF self.use_commas THEN "," ELSE "."
        neg == value < 0
        mag == IF neg THEN -value ELSE value
    IN IF is_time
       THEN IF self.time_in_ms
            THEN FixedPoint(RoundHalfEven(mag, TicksPerMicrosecond), neg, 3, point)
            ELSE FixedPoint(RoundHalfEven(mag, TicksPerMicrosecond), neg, 6, point)
       ELSE IF self.value_in_uV
            THEN FixedPoint(ScaledVoltage(mag), neg, 1, point)
            ELSE FixedPoint(ScaledVoltage(mag), neg, 4, point)

\* LabChartExporter.__init__: the attributes of a new exporter.
LabChartExporter(sample_rate, range_mV, use_commas, time_in_ms, value_in_uV, absolute_time, glitch_threshold) ==
    [constructed |-> TRUE,
     sample_rate |-> sample_rate,
     range_mV |-> range_mV,
     use_commas |-> use_commas,
     time_in_ms |-> time_in_ms,
     value_in_uV |-> value_in_uV,
     absolute_time |-> absolute_time,
     glitch_threshold |-> glitch_threshold,
     start_time |-> None]

\* value * self.mV_per_count (lines 42, 176 and 327), in 1/65536 mV.
Voltage(self, value) == value * self.range_mV

NoFile == <<"absent">>

Exists(fsys, filename) == fsys[filename] # NoFile

HeaderLine(key, value) == [key |-> key, sep |-> "= ", fields |-> <<value>>]

DataLine(sep, fields) == [key |-> "", sep |-> sep, fields |-> fields]

\* str(1.0 / sample_rate) and str(1000.0 / sample_rate) (lines 81-85).
IntervalText(self) ==
    IF self.time_in_ms
    THEN CASE self.sample_rate = 128 -> "7.8125"
           [] self.sample_rate = 256 -> "3.90625"
           [] self.sample_rate = 512 -> "1.953125"
    ELSE CASE self.sample_rate = 128 -> "0.0078125"
           [] self.sample_rate = 256 -> "0.00390625"
           [] self.sample_rate = 512 -> "0.001953125"

NoDate == "None"

\* The header written by _init_file and _init_multi_channel_file; channel_title
\* is the text after "ChannelTitle= ".
HeaderLines(self, channel_title, creation_date) ==
    << HeaderLine("Interval", IntervalText(self)),
       HeaderLine("DateTime", IF creation_date # NoDate /\ creation_date # ""
                              THEN creation_date ELSE "Unknown"),
       HeaderLine("TimeFormat", ""),
       HeaderLine("ChannelTitle", channel_title),
       HeaderLine("Range", ToString(IF self.value_in_uV THEN self.range_mV * 1000
                                    ELSE self.range_mV) \o ".0") >>

\* LabChartExporter._init_file: open(filename, "w") and the header.
init_file(self, fsys, filename, channel_num, creation_date) ==
    [fsys EXCEPT ![filename] = HeaderLines(self, ToString(channel_num), creation_date)]

\* |a - b|.
AbsDiff(a, b) == IF a >= b THEN a - b ELSE b - a

RECURSIVE CascadeFrom(_, _, _)
\* The filter from index i on when the tests and the average read filtered,
\* the values already replaced.
CascadeFrom(filtered, i, threshold) ==
    IF i >= Len(filtered) THEN filtered
    ELSE CascadeFrom(
             IF AbsDiff(filtered[i], filtered[i - 1]) > threshold
                /\ AbsDiff(filtered[i], filtered[i + 1]) > threshold
             THEN [filtered EXCEPT ![i] = (filtered[i - 1] + filtered[i + 1]) \div 2]
             ELSE filtered,
             i + 1, threshold)

\* Mutant: the filter reads the values it has already replaced.
apply_glitch_filter_Cascading(self, values) ==
    IF self.glitch_threshold = 0 \/ Len(values) < 3 THEN values
    ELSE CascadeFrom(values, 2, self.glitch_threshold)

\* Mutant: the filter without the test of line 116.
apply_glitch_filter_NoShortcut(self, values) ==
    [i \in 1 .. Len(values) |->
        IF i = 1 \/ i = Len(values) THEN values[i]
        ELSE IF AbsDiff(values[i], values[i - 1]) > self.glitch_threshold
                /\ AbsDiff(values[i], values[i + 1]) > self.glitch_threshold
             THEN (values[i - 1] + values[i + 1]) \div 2
             ELSE values[i]]

\* LabChartExporter._apply_glitch_filter.
apply_glitch_filter(self, values) ==
    IF self.glitch_threshold = 0 \/ Len(values) < 3 THEN values
    ELSE [i \in 1 .. Len(values) |->
            IF i = 1 \/ i = Len(values) THEN values[i]
            ELSE LET diff_prev == IF values[i] >= values[i - 1]
                                  THEN values[i] - values[i - 1]
                                  ELSE values[i - 1] - values[i]
                     diff_next == IF values[i] >= values[i + 1]
                                  THEN values[i] - values[i + 1]
                                  ELSE values[i + 1] - values[i]
                 IN IF diff_prev > self.glitch_threshold
                       /\ diff_next > self.glitch_threshold
                    THEN (values[i - 1] + values[i + 1]) \div 2
                    ELSE values[i]]

\* Mutant: the header is written by every call.
NeedsHeader_Always(fsys, filename) == TRUE

\* Whether export_interval writes the header (line 153).
NeedsHeader(fsys, filename) == ~Exists(fsys, filename)

\* The data lines of export_interval (lines 169-183): sample k (from 0) of
\* filtered_values at start_time + k * sample_period.
IntervalLines(self, filtered_values, start_time) ==
    [k \in 1 .. Len(filtered_values) |->
        DataLine(" ", << format_value(self, start_time
                                             + (k - 1) * SamplePeriod(self.sample_rate), TRUE),
                         format_value(self, Voltage(self, filtered_values[k]), FALSE) >>)]

\* LabChartExporter.export_interval: the exporter and the files after the
\* call, and the value returned.
export_interval(self, fsys, filename, channel_num, signal_values, interval_start_time, creation_date) ==
    LET create == NeedsHeader(fsys, filename)
        fs1 == IF create
               THEN init_file(self, fsys, filename, channel_num, creation_date)
               ELSE fsys
        self1 == IF create /\ ~self.absolute_time
                 THEN [self EXCEPT !.start_time = interval_start_time]
                 ELSE self
        filtered_values == apply_glitch_filter(self1, signal_values)
        self2 == IF ~self1.absolute_time /\ self1.start_time = None
                 THEN [self1 EXCEPT !.start_time = interval_start_time]
                 ELSE self1
        start_time == IF self2.absolute_time THEN interval_start_time
                      ELSE interval_start_time - self2.start_time
        export_lines == IntervalLines(self2, filtered_values, start_time)
    IN [self |-> self2,
        fs |-> [fs1 EXCEPT ![filename] =
                   (IF Exists(fs1, filename) THEN fs1[filename] ELSE <<>>) \o export_lines],
        ret |-> Len(filtered_values)]

\* os.path.join(output_dir, f"E{channel_num}.txt") (line 210).
ChannelFile(channel_num) == "E" \o ToString(channel_num) \o ".txt"

RECURSIVE ExportIntervals(_, _, _, _, _, _)
\* The loop of export_channel (lines 212-217) over intervals[i..].
ExportIntervals(self, fsys, filename, channel_num, intervals, creation_date) ==
    IF intervals = <<>> THEN [self |-> self, fs |-> fsys, ret |-> 0]
    ELSE LET one == export_interval(self, fsys, filename, channel_num,
                                    Head(intervals).samples, Head(intervals).start,
                                    creation_date)
             rest == ExportIntervals(one.self, one.fs, filename, channel_num,
                                     Tail(intervals), creation_date)
         IN [self |-> rest.self, fs |-> rest.fs, ret |-> one.ret + rest.ret]

\* LabChartExporter.export_channel: ret is the path returned, total the number
\* of samples it reports.
export_channel(self, fsys, channel_num, intervals, creation_date) ==
    LET filename == ChannelFile(channel_num)
        done == ExportIntervals(self, fsys, filename, channel_num, intervals,
                                creation_date)
    IN [self |-> done.self, fs |-> done.fs, ret |-> filename, total |-> done.ret]

(***************************************************************************)
(* export_multi_channel.  channel_data is a dict: the sequence of its      *)
(* items [channel, intervals] in insertion order, the channels distinct;   *)
(* an interval is [start, samples].                                        *)
(***************************************************************************)
Keys(channel_data) == [i \in DOMAIN channel_data |-> channel_data[i].channel]

\* channel_data[channel].
Lookup(channel_data, channel) ==
    channel_data[CHOOSE i \in DOMAIN channel_data :
                     channel_data[i].channel = channel].intervals

RECURSIVE InsertInt(_, _)
InsertInt(s, x) ==
    IF s = <<>> THEN <<x>>
    ELSE IF s[Len(s)] <= x THEN Append(s, x)
    ELSE Append(InsertInt(SubSeq(s, 1, Len(s) - 1), x), s[Len(s)])

RECURSIVE Sorted(_)
\* sorted(s) for a sequence of integers.
Sorted(s) ==
    IF s = <<>> THEN <<>> ELSE InsertInt(Sorted(SubSeq(s, 1, Len(s) - 1)), s[Len(s)])

RECURSIVE SetToSeq(_)
SetToSeq(S) ==
    IF S = {} THEN <<>> ELSE LET x == CHOOSE y \in S : TRUE IN <<x>> \o SetToSeq(S \ {x})

\* Mutant: the channels in the order of the keys.
SortedChannels_KeyOrder(channel_data) == Keys(channel_data)

\* sorted(channel_data.keys()) (line 250).
SortedChannels(channel_data) == Sorted(Keys(channel_data))

\* Mutant: only the empty map is rejected.
ValidateChannelData_MapOnly(channel_data) ==
    IF channel_data = <<>> THEN "ValueError" ELSE "None"

\* The checks of lines 246-255: the exception raised, or "None".
ValidateChannelData(channel_data) ==
    IF channel_data = <<>> THEN "ValueError"
    ELSE IF \E i \in DOMAIN channel_data : channel_data[i].intervals = <<>>
         THEN "ValueError"
    ELSE "None"

\* Mutant: every channel at the exporter's sample_rate.
channel_sample_rate_OfExporter(self, channel) == self.sample_rate

\* Line 267.
channel_sample_rate(self, channel) == IF channel = 0 THEN 128 ELSE 512

\* The samples of one interval with their times (lines 270-278).
IntervalSamples(self, channel, interval) ==
    LET filtered_values == apply_glitch_filter(self, interval.samples)
        sample_period == SamplePeriod(channel_sample_rate(self, channel))
    IN [i \in 1 .. Len(filtered_values) |->
           [sample_time |-> interval.start + (i - 1) * sample_period,
            channel |-> channel,
            value |-> filtered_values[i]]]

RECURSIVE ChannelSamples(_, _, _)
ChannelSamples(self, channel, intervals) ==
    IF intervals = <<>> THEN <<>>
    ELSE IntervalSamples(self, channel, Head(intervals))
           \o ChannelSamples(self, channel, Tail(intervals))

RECURSIVE AllSamples(_, _, _)
\* all_samples after the loop of lines 264-278 over channels.
AllSamples(self, channels, channel_data) ==
    IF channels = <<>> THEN <<>>
    ELSE ChannelSamples(self, Head(channels), Lookup(channel_data, Head(channels)))
           \o AllSamples(self, Tail(channels), channel_data)

\* The sort key of line 281: (sample_time, channel).
SampleLeq(a, b) ==
    \/ a.sample_time < b.sample_time
    \/ a.sample_time = b.sample_time /\ a.channel <= b.channel

RECURSIVE InsertSample(_, _)
InsertSample(s, x) ==
    IF s = <<>> THEN <<x>>
    ELSE IF SampleLeq(s[Len(s)], x) THEN Append(s, x)
    ELSE Append(InsertSample(SubSeq(s, 1, Len(s) - 1), x), s[Len(s)])

RECURSIVE SortSamples(_)
\* all_samples.sort(key=lambda x: (x[0], x[1])) (line 281): a stable sort.
SortSamples(s) ==
    IF s = <<>> THEN <<>>
    ELSE InsertSample(SortSamples(SubSeq(s, 1, Len(s) - 1)), s[Len(s)])

\* Mutant: samples are grouped by their unrounded time.
rounded_time_Unrounded(sample_time) == sample_time

\* The key a sample is grouped under (line 290).
rounded_time(sample_time) == Round9(sample_time)

\* timestamp_groups after the loop of lines 287-295: for every rounded time
\* the channels that have a sample there, each with the value written last.
TimestampGroups(all_samples) ==
    LET times == {rounded_time(all_samples[i].sample_time) : i \in DOMAIN all_samples}
        at(t, ch) == {i \in DOMAIN all_samples :
                        /\ rounded_time(all_samples[i].sample_time) = t
                        /\ all_samples[i].channel = ch}
        last(I) == CHOOSE i \in I : \A j \in I : j <= i
    IN [t \in times |->
          [ch \in {all_samples[i].channel : i \in {j \in DOMAIN all_samples : rounded_time(all_samples[j].sample_time) = t}} |->
              all_samples[last(at(t, ch))].value]]

RECURSIVE JoinTitles(_)
\* ", ".join(str(ch) for ch in channels) (line 371).
JoinTitles(channels) ==
    IF channels = <<>> THEN ""
    ELSE IF Len(channels) = 1 THEN ToString(channels[1])
    ELSE ToString(channels[1]) \o ", " \o JoinTitles(Tail(channels))

\* LabChartExporter._init_multi_channel_file: open(filename, "w") and the header.
init_multi_channel_file(self, fsys, filename, channels, creation_date) ==
    [fsys EXCEPT ![filename] = HeaderLines(self, JoinTitles(channels), creation_date)]

\* Mutant: a channel without a value at this time gets no field.
MultiChannelLine_SkipsMissing(self, channels, channel_values, sample_time, start_time_value) ==
    LET display_time == IF self.absolute_time THEN sample_time
                        ELSE sample_time - start_time_value
        present == SelectSeq(channels, LAMBDA c : c \in DOMAIN channel_values)
    IN DataLine("\t",
           <<format_value(self, display_time, TRUE)>>
             \o [k \in 1 .. Len(present) |->
                    format_value(self, Voltage(self, channel_values[present[k]]), FALSE)])

\* One data line (lines 310-334): the time, then one field per channel of
\* channels, empty when the channel has no value at this time.
MultiChannelLine(self, channels, channel_values, sample_time, start_time_value) ==
    LET display_time == IF self.absolute_time THEN sample_time
                        ELSE sample_time - start_time_value
    IN DataLine("\t",
           <<format_value(self, display_time, TRUE)>>
             \o [k \in 1 .. Len(channels) |->
                    IF channels[k] \in DOMAIN channel_values
                    THEN format_value(self, Voltage(self, channel_values[channels[k]]), FALSE)
                    ELSE ""])

\* Mutant: the file is initialised before the channel map is checked.
export_multi_channel_InitFirst(self, fsys, output_file, channel_data, creation_date) ==
    LET channels == SortedChannels(channel_data)
        fs1 == init_multi_channel_file(self, fsys, output_file, channels, creation_date)
    IN IF ValidateChannelData(channel_data) # "None"
       THEN [self |-> self, fs |-> fs1, raised |-> ValidateChannelData(channel_data),
             ret |-> ""]
       ELSE LET all_samples == SortSamples(AllSamples(self, channels, channel_data))
                timestamp_groups == TimestampGroups(all_samples)
                sorted_times == Sorted(SetToSeq(DOMAIN timestamp_groups))
                self1 == IF ~self.absolute_time /\ self.start_time = None
                         THEN [self EXCEPT !.start_time =
                                  IF sorted_times # <<>> THEN sorted_times[1] ELSE 0]
                         ELSE self
                start_time_value == IF ~self.absolute_time THEN self1.start_time ELSE 0
                lines == [k \in 1 .. Len(sorted_times) |->
                             MultiChannelLine(self1, channels,
                                              timestamp_groups[sorted_times[k]],
                                              sorted_times[k], start_time_value)]
            IN [self |-> self1,
                fs |-> [fs1 EXCEPT ![output_file] = @ \o lines],
                raised |-> "None",
                ret |-> output_file]

\* LabChartExporter.export_multi_channel: the exporter and the files after the
\* call, the exception raised ("None" when it returns) and the value returned.
export_multi_channel(self, fsys, output_file, channel_data, creation_date) ==
    IF ValidateChannelData(channel_data) # "None"
    THEN [self |-> self, fs |-> fsys, raised |-> ValidateChannelData(channel_data),
          ret |-> ""]
    ELSE LET channels == SortedChannels(channel_data)
             fs1 == init_multi_channel_file(self, fsys, output_file, channels,
                                            creation_date)
             all_samples == SortSamples(AllSamples(self, channels, channel_data))
             timestamp_groups == TimestampGroups(all_samples)
             sorted_times == Sorted(SetToSeq(DOMAIN timestamp_groups))
             self1 == IF ~self.absolute_time /\ self.start_time = None
                      THEN [self EXCEPT !.start_time =
                               IF sorted_times # <<>> THEN sorted_times[1] ELSE 0]
                      ELSE self
             start_time_value == IF ~self.absolute_time THEN self1.start_time ELSE 0
             lines == [k \in 1 .. Len(sorted_times) |->
                          MultiChannelLine(self1, channels,
                                           timestamp_groups[sorted_times[k]],
                                           sorted_times[k], start_time_value)]
         IN [self |-> self1,
             fs |-> [fs1 EXCEPT ![output_file] = @ \o lines],
             raised |-> "None",
             ret |-> output_file]

(***************************************************************************)
(* Inputs of the exporter.                                                 *)
(***************************************************************************)
\* Number of exporter calls in a behaviour of Spec.
MaxCalls == 2

\* Largest number of channels in a channel map.
MaxChannels == 2

Period512 == SamplePeriod(512)

Dates == {NoDate, "2023-01-01 12:00:00"}

Interval(start, samples) == [start |-> start, samples |-> samples]

\* Interval lists: none; one empty interval; two samples; five samples (with a
\* glitch); two samples starting a fraction of a nanosecond late; two
\* intervals, the second starting on the last sample of the first.
IntervalLists ==
    { <<>>,
      <<Interval(0, <<>>)>>,
      <<Interval(0, <<32768, 33000>>)>>,
      <<Interval(0, <<1000, 1010, 2000, 1020, 1030>>)>>,
      <<Interval(1, <<100, 200>>)>>,
      <<Interval(0, <<500, 600>>), Interval(Period512, <<700>>)>> }

Channels == {0, 1, 5}

\* Dicts of at most MaxChannels channels, in every insertion order.
ChannelMaps ==
    { [i \in DOMAIN ks |-> [channel |-> ks[i], intervals |-> ls[i]]] :
        <<ks, ls>> \in
            { p \in SeqsUpTo(Channels, MaxChannels) \X SeqsUpTo(IntervalLists, MaxChannels) :
                /\ Len(p[1]) = Len(p[2])
                /\ \A a, b \in DOMAIN p[1] : a # b => p[1][a] # p[1][b] } }

\* use_commas, time_in_ms, value_in_uV: the defaults, and all three set.
FormatFlags == {<<FALSE, FALSE, FALSE>>, <<TRUE, TRUE, TRUE>>}

\* Exporters as constructed.
Exporters ==
    { LabChartExporter(rate, 120, flags[1], flags[2], flags[3], absolute, glitch) :
        rate \in {128, 512}, flags \in FormatFlags, absolute \in BOOLEAN,
        glitch \in {0, 500} }

Targets == {"E1.txt", "E2.txt", "out.txt"}

NothingWritten == [creator |-> "none", writes |-> <<>>]

\* A unified file left by an earlier export of another exporter.
EarlierFile ==
    export_multi_channel(LabChartExporter(512, 120, FALSE, FALSE, FALSE, FALSE, 500),
                         [f \in Targets |-> NoFile], "out.txt",
                         <<[channel |-> 1, intervals |-> <<Interval(0, <<1, 2, 3>>)>>]>>,
                         NoDate).fs["out.txt"]

GrouperIdle ==
    /\ ndf_files = <<>>
    /\ gap_threshold = 0
    /\ grouping = NotCalled

(***************************************************************************)
(* SpecMulti: one call of export_multi_channel on a new exporter.          *)
(***************************************************************************)
InitMulti ==
    /\ GrouperIdle
    /\ ReaderIdle
    /\ exporter \in Exporters
    /\ fs \in {[f \in Targets |-> NoFile],
               [f \in Targets |-> IF f = "out.txt" THEN EarlierFile ELSE NoFile]}
    /\ written = [f \in Targets |-> NothingWritten]
    /\ last_call = [op |-> "none"]
    /\ calls = 0

\* exporter.export_multi_channel(output_file, channel_data, creation_date).
CallExportMultiChannel(output_file, channel_data, creation_date) ==
    LET r == export_multi_channel(exporter, fs, output_file, channel_data, creation_date)
    IN /\ exporter' = r.self
       /\ fs' = r.fs
       /\ written' = IF r.raised = "None"
                     THEN [written EXCEPT ![output_file] =
                              [creator |-> "multi", writes |-> <<>>]]
                     ELSE written
       /\ last_call' = [op |-> "export_multi_channel", output_file |-> output_file,
                        channel_data |-> channel_data, creation_date |-> creation_date,
                        raised |-> r.raised, ret |-> r.ret]
       /\ calls' = calls + 1
       /\ UNCHANGED <<groupVars, readVars>>

MultiChannelOnce ==
    /\ calls = 0
    /\ \E channel_data \in ChannelMaps :
           CallExportMultiChannel("out.txt", channel_data, "2023-01-01 12:00:00")

NextMulti == MultiChannelOnce

SpecMulti == InitMulti /\ [][NextMulti]_vars

(***************************************************************************)
(* Spec: at most MaxCalls calls of export_interval, export_channel and     *)
(* export_multi_channel on one exporter.  written[f] remembers which call  *)
(* created file f and the signal_values appended to it since.              *)
(***************************************************************************)
\* The exporters of Spec: 512 Hz, glitch filter on.
SeqExporters ==
    { LabChartExporter(512, 120, flags[1], flags[2], flags[3], absolute, 500) :
        flags \in FormatFlags, absolute \in BOOLEAN }

SignalValues == { <<>>, <<32768, 33000>>, <<1000, 1010, 2000, 1020, 1030>> }

StartTimes == {0, 2 * Period512}

SeqIntervalLists ==
    { <<>>,
      <<Interval(0, <<32768, 33000>>)>>,
      <<Interval(2 * Period512, <<500, 600>>), Interval(0, <<700>>)>> }

SeqChannelMaps ==
    { <<>>,
      <<[channel |-> 1, intervals |-> <<Interval(0, <<32768, 33000>>)>>],
        [channel |-> 0, intervals |-> <<>>]>>,
      <<[channel |-> 1, intervals |-> <<Interval(0, <<32768, 33000>>)>>]>>,
      <<[channel |-> 5, intervals |-> <<Interval(0, <<1, 2>>)>>],
        [channel |-> 0, intervals |-> <<Interval(0, <<3>>)>>]>> }

\* written after signal_values are appended to filename, which the call
\* creates when it is not in fsys.
Appended(w, fsys, filename, signal_values) ==
    [w EXCEPT ![filename] =
        IF Exists(fsys, filename)
        THEN [creator |-> w[filename].creator,
              writes |-> Append(w[filename].writes, signal_values)]
        ELSE [creator |-> "single", writes |-> <<signal_values>>]]

RECURSIVE AppendedAll(_, _, _, _)
\* written after each interval of intervals is appended to filename in turn.
AppendedAll(w, fsys, filename, intervals) ==
    IF intervals = <<>> THEN w
    ELSE AppendedAll(Appended(w, fsys, filename, Head(intervals).samples),
                     [fsys EXCEPT ![filename] = <<>>], filename, Tail(intervals))

Init ==
    /\ GrouperIdle
    /\ ReaderIdle
    /\ exporter \in SeqExporters
    /\ fs \in {[f \in Targets |-> NoFile],
               [f \in Targets |-> IF f = "out.txt" THEN EarlierFile ELSE NoFile]}
    /\ written = [f \in Targets |-> NothingWritten]
    /\ last_call = [op |-> "none"]
    /\ calls = 0

\* exporter.export_interval(filename, channel_num, signal_values,
\* interval_start_time, creation_date).
ExportInterval ==
    /\ calls < MaxCalls
    /\ \E filename \in {"E1.txt", "out.txt"}, signal_values \in SignalValues,
          interval_start_time \in StartTimes :
           LET r == export_interval(exporter, fs, filename, 1, signal_values,
                                    interval_start_time, NoDate)
           IN /\ exporter' = r.self
              /\ fs' = r.fs
              /\ written' = Appended(written, fs, filename, signal_values)
              /\ last_call' = [op |-> "export_interval", filename |-> filename,
                               signal_values |-> signal_values,
                               interval_start_time |-> interval_start_time,
                               raised |-> "None", ret |-> r.ret]
    /\ calls' = calls + 1
    /\ UNCHANGED <<groupVars, readVars>>

\* exporter.export_channel(output_dir, channel_num, intervals, creation_date).
ExportChannel ==
    /\ calls < MaxCalls
    /\ \E channel_num \in {1, 2}, intervals \in SeqIntervalLists :
           LET r == export_channel(exporter, fs, channel_num, intervals, NoDate)
           IN /\ exporter' = r.self
              /\ fs' = r.fs
              /\ written' = AppendedAll(written, fs, r.ret, intervals)
              /\ last_call' = [op |-> "export_channel", channel_num |-> channel_num,
                               intervals |-> intervals, raised |-> "None",
                               ret |-> r.ret, total |-> r.total]
    /\ calls' = calls + 1
    /\ UNCHANGED <<groupVars, readVars>>

\* exporter.export_multi_channel(output_file, channel_data, creation_date).
ExportMultiChannel ==
    /\ calls < MaxCalls
    /\ \E output_file \in {"E1.txt", "out.txt"}, channel_data \in SeqChannelMaps :
           CallExportMultiChannel(output_file, channel_data, NoDate)

Next ==
    \/ ExportInterval
    \/ ExportChannel
    \/ ExportMultiChannel

Spec == Init /\ [][Next]_vars

(***************************************************************************)
(* TextSignalReader and SimpleBinarySignalReader (ndf_reader.py).  A text  *)
(* file is the sequence of its lines, a line being [kind, tenths]: blank,  *)
(* a comment, a number (given in tenths, so that int(float(line)) is a     *)
(* real truncation), a word that is no number, or "inf".  A binary file is *)
(* the sequence of its bytes.  interval_length is in ticks like every      *)
(* time.                                                                   *)
(***************************************************************************)
TextLine(kind, tenths) == [kind |-> kind, tenths |-> tenths]

\* int(x) for x = tenths / 10: the truncation towards zero.
IntOfFloat(tenths) == IF tenths >= 0 THEN tenths \div 10 ELSE -((-tenths) \div 10)

\* Lines 406-407: the lines that are parsed.
IsParsed(line) == line.kind \notin {"blank", "comment"}

RECURSIVE ParseLines(_)
\* Lines 403-411: the values of the lines; a word raises ValueError in
\* float() and is skipped.
ParseLines(lines) ==
    IF lines = <<>> THEN <<>>
    ELSE IF IsParsed(Head(lines)) /\ Head(lines).kind = "number"
         THEN <<IntOfFloat(Head(lines).tenths)>> \o ParseLines(Tail(lines))
         ELSE ParseLines(Tail(lines))

\* int(sample_rate * interval_length) (lines 370 and 414).
samples_per_interval(sample_rate, interval_length) ==
    interval_length \div SamplePeriod(sample_rate)

RECURSIVE SplitFrom(_, _, _, _)
\* The loop "for i in range(0, len(values), samples_per_interval)" from i on
\* (lines 373-377 and 417-421).
SplitFrom(values, i, spi, sample_rate) ==
    IF i >= Len(values) THEN <<>>
    ELSE LET last == IF i + spi < Len(values) THEN i + spi ELSE Len(values)
             interval_values == SubSeq(values, i + 1, last)
         IN (IF Len(interval_values) > 0
             THEN <<Interval(i * SamplePeriod(sample_rate), interval_values)>>
             ELSE <<>>)
            \o SplitFrom(values, i + spi, spi, sample_rate)

\* Mutant: the last interval is dropped when it is short.
SplitIntoIntervals_DropsShort(values, sample_rate, interval_length) ==
    LET spi == samples_per_interval(sample_rate, interval_length)
    IN IF spi = 0 THEN [raised |-> "ValueError", ret |-> <<>>]
       ELSE [raised |-> "None",
             ret |-> SelectSeq(SplitFrom(values, 0, spi, sample_rate),
                               LAMBDA interval : Len(interval.samples) = spi)]

\* Lines 369-379 and 413-423: range() raises ValueError for a step of 0.
SplitIntoIntervals(values, sample_rate, interval_length) ==
    LET spi == samples_per_interval(sample_rate, interval_length)
    IN IF spi = 0 THEN [raised |-> "ValueError", ret |-> <<>>]
       ELSE [raised |-> "None", ret |-> SplitFrom(values, 0, spi, sample_rate)]

\* TextSignalReader.read_signal: int(float("inf")) raises OverflowError, which
\* line 410 does not catch.
TextSignalReader_read_signal(file, sample_rate, interval_length) ==
    IF ~file.exists THEN [raised |-> "FileNotFoundError", ret |-> <<>>]
    ELSE IF \E n \in DOMAIN file.lines : file.lines[n].kind = "inf"
    THEN [raised |-> "OverflowError", ret |-> <<>>]
    ELSE SplitIntoIntervals(ParseLines(file.lines), sample_rate, interval_length)

\* struct.unpack(f"<{num_samples}H", data) (lines 366-367): little-endian
\* 16-bit values.
UnpackH(data) ==
    [n \in 1 .. Len(data) \div 2 |-> data[2 * n - 1] + 256 * data[2 * n]]

\* SimpleBinarySignalReader.read_signal: unpack raises struct.error when the
\* file is not num_samples * 2 bytes long.
SimpleBinarySignalReader_read_signal(file, sample_rate, interval_length) ==
    IF ~file.exists THEN [raised |-> "FileNotFoundError", ret |-> <<>>]
    ELSE IF Len(file.bytes) % 2 # 0 THEN [raised |-> "struct.error", ret |-> <<>>]
    ELSE SplitIntoIntervals(UnpackH(file.bytes), sample_rate, interval_length)

\* Largest number of lines of a text file.
MaxLines == 3

\* Largest number of bytes of a binary file.
MaxBytes == 6

Lines ==
    { TextLine("blank", 0), TextLine("comment", 0), TextLine("word", 0),
      TextLine("inf", 0), TextLine("number", -50), TextLine("number", 700000),
      TextLine("number", 127) }

TextFiles ==
    { [exists |-> TRUE, kind |-> "text", lines |-> lines] : lines \in SeqsUpTo(Lines, MaxLines) }

BinaryFiles ==
    { [exists |-> TRUE, kind |-> "binary", bytes |-> bytes] :
        bytes \in SeqsUpTo({0, 255}, MaxBytes) }

SignalRates == {256, 512}

IntervalLengths == {n * Period512 : n \in 1 .. 4}

(***************************************************************************)
(* SpecSignal: one call of read_signal on a text or a binary file.         *)
(***************************************************************************)
InitSignal ==
    /\ GrouperIdle
    /\ exporter = [constructed |-> FALSE]
    /\ fs = <<>>
    /\ written = <<>>
    /\ last_call = [op |-> "none"]
    /\ calls = 0
    /\ disk \in TextFiles \cup BinaryFiles
    /\ reader = [constructed |-> FALSE]

\* TextSignalReader.read_signal(filepath, sample_rate, interval_length).
ReadTextSignal ==
    /\ calls = 0
    /\ disk.kind = "text"
    /\ \E sample_rate \in SignalRates, interval_length \in IntervalLengths :
           LET r == TextSignalReader_read_signal(disk, sample_rate, interval_length)
           IN last_call' = [op |-> "TextSignalReader.read_signal",
                            sample_rate |-> sample_rate,
                            interval_length |-> interval_length,
                            raised |-> r.raised, ret |-> r.ret]
    /\ calls' = 1
    /\ UNCHANGED <<groupVars, exporter, fs, written, readVars>>

\* SimpleBinarySignalReader.read_signal(filepath, sample_rate, interval_length).
ReadBinarySignal ==
    /\ calls = 0
    /\ disk.kind = "binary"
    /\ \E sample_rate \in SignalRates, interval_length \in IntervalLengths :
           LET r == SimpleBinarySignalReader_read_signal(disk, sample_rate, interval_length)
           IN last_call' = [op |-> "SimpleBinarySignalReader.read_signal",
                            sample_rate |-> sample_rate,
                            interval_length |-> interval_length,
                            raised |-> r.raised, ret |-> r.ret]
    /\ calls' = 1
    /\ UNCHANGED <<groupVars, exporter, fs, written, readVars>>

NextSignal ==
    \/ ReadTextSignal
    \/ ReadBinarySignal

SpecSignal == InitSignal /\ [][NextSignal]_vars

(***************************************************************************)
(* SpecFilter: one call of _apply_glitch_filter.                           *)
(***************************************************************************)
\* Longest sample list given to the filter.
MaxSamples == 5

\* Samples 10, 100 and 101 counts apart, and far apart.
FilterValues == {1000, 1010, 1020, 1100, 1201, 2000}

FilterExporters ==
    { LabChartExporter(512, 120, FALSE, FALSE, FALSE, FALSE, glitch) : glitch \in {0, 100} }

InitFilter ==
    /\ GrouperIdle
    /\ ReaderIdle
    /\ exporter \in FilterExporters
    /\ fs = <<>>
    /\ written = <<>>
    /\ last_call = [op |-> "none"]
    /\ calls = 0

\* exporter._apply_glitch_filter(values).
ApplyGlitchFilter ==
    /\ calls = 0
    /\ \E values \in SeqsUpTo(FilterValues, MaxSamples) :
           last_call' = [op |-> "_apply_glitch_filter", values |-> values,
                         ret |-> apply_glitch_filter(exporter, values)]
    /\ calls' = 1
    /\ UNCHANGED <<groupVars, readVars, exporter, fs, written>>

NextFilter == ApplyGlitchFilter

SpecFilter == InitFilter /\ [][NextFilter]_vars

(***************************************************************************)
(* The archive start time in the file name.  A file name is the sequence   *)
(* of its characters.                                                      *)
(***************************************************************************)
DigitChars == <<"0", "1", "2", "3", "4", "5", "6", "7", "8", "9">>

IsDigit(c) == \E d \in DOMAIN DigitChars : DigitChars[d] = c

DigitValue(c) == (CHOOSE d \in DOMAIN DigitChars : DigitChars[d] = c) - 1

\* The lower case of a character of the extension.
Lower(c) ==
    CASE c = "N" -> "n"
      [] c = "D" -> "d"
      [] c = "F" -> "f"
      [] OTHER -> c

RECURSIVE DigitRun(_, _)
\* The number of digits of name from position i on, up to the first character
\* that is no digit.
DigitRun(name, i) ==
    IF i > Len(name) \/ ~IsDigit(name[i]) THEN 0 ELSE 1 + DigitRun(name, i + 1)

RECURSIVE IntOfDigits(_)
\* int() of a string of digits.
IntOfDigits(digits) ==
    IF digits = <<>> THEN 0
    ELSE 10 * IntOfDigits(SubSeq(digits, 1, Len(digits) - 1))
             + DigitValue(digits[Len(digits)])

\* The number of digits of a file name's timestamp.
TimestampDigits == 10

\* Mutant: a timestamp of fewer digits is accepted.
AcceptsDigitCount_UpTo(n) == n \in 1 .. TimestampDigits

\* Whether n digits make a timestamp.
AcceptsDigitCount(n) == n = TimestampDigits

\* NDFReader.get_archive_start_time on the file name: "M", the digits of the
\* timestamp, ".ndf" in any case; None for any other name.
extract_archive_start_time(name) ==
    LET n == DigitRun(name, 2)
        rest == SubSeq(name, n + 2, Len(name))
    IN IF /\ name # <<>>
          /\ name[1] = "M"
          /\ AcceptsDigitCount(n)
          /\ [k \in DOMAIN rest |-> Lower(rest[k])] = <<".", "n", "d", "f">>
       THEN IntOfDigits(SubSeq(name, 2, n + 1))
       ELSE None

NamePrefixes == { <<"M">>, <<"m">>, <<"X", "M">>, <<>> }

\* 10 digits, 9, 11, 10 with leading zeros, 9 digits and a letter, no digit.
NameBodies ==
    { <<"1", "5", "5", "5", "4", "0", "4", "5", "3", "0">>,
      <<"1", "5", "5", "5", "4", "0", "4", "5", "3">>,
      <<"1", "5", "5", "5", "4", "0", "4", "5", "3", "0", "0">>,
      <<"0", "0", "0", "0", "0", "0", "0", "0", "4", "2">>,
      <<"1", "5", "5", "5", "4", "0", "4", "5", "3", "x">>,
      <<>> }

NameExtensions ==
    { <<".", "n", "d", "f">>, <<".", "N", "D", "F">>, <<".", "N", "d", "f">>,
      <<".", "t", "x", "t">>, <<".", "n", "d", "f", "x">>, <<>> }

ArchiveNames ==
    { prefix \o body \o extension :
        prefix \in NamePrefixes, body \in NameBodies, extension \in NameExtensions }

(***************************************************************************)
(* SpecName: one call of get_archive_start_time on a reader of a file of   *)
(* any name.                                                               *)
(***************************************************************************)
InitName ==
    /\ GrouperIdle
    /\ exporter = [constructed |-> FALSE]
    /\ fs = <<>>
    /\ written = <<>>
    /\ last_call = [op |-> "none"]
    /\ calls = 0
    /\ disk = [exists |-> TRUE, kind |-> "ndf"]
    /\ reader \in { [constructed |-> TRUE, filepath |-> name] : name \in ArchiveNames }

\* reader.get_archive_start_time().
GetArchiveStartTime ==
    /\ calls = 0
    /\ last_call' = [op |-> "get_archive_start_time",
                     ret |-> extract_archive_start_time(reader.filepath)]
    /\ calls' = 1
    /\ UNCHANGED <<groupVars, readVars, exporter, fs, written>>

NextName == GetArchiveStartTime

SpecName == InitName /\ [][NextName]_vars

(***************************************************************************)
(* NDFReader (ndf_reader.py).  An NDF file is not modelled byte by byte:   *)
(* disk holds its size, whether it starts with the magic bytes, the kind   *)
(* of metadata block in its first 1024 bytes, for every candidate offset   *)
(* the region read there, and the 8-byte records that follow               *)
(* data_start_offset.  A region is [messages, rest_non_zero]: the first    *)
(* reads of message_size bytes at the offset, as far as the file has them, *)
(* and the number of non-zero bytes among the rest of the 1024 bytes read. *)
(***************************************************************************)
\* Line 96.
CandidateOffsets == <<512, 1024, 2048, 4096, 8192, 16384, 20480>>

\* Line 116.
FallbackOffset == 20480

\* Line 46: the bytes of the magic and the three header integers.
HeaderSize == 16

\* Line 106.
SignificantNonZero == 100

\* Line 137.
EnoughValidMessages == 5

\* Mutant: the header integers are unpacked whatever was read.
HasHeader_Always(data_len) == TRUE

\* Line 46.
HasHeader(data_len) == data_len >= HeaderSize

\* The keys _read_metadata leaves in self.metadata (lines 46-83) for a file
\* that could be opened, the warnings it prints, and struct.error when
\* struct.unpack is given fewer than 12 bytes.
read_metadata(file) ==
    LET data_len == IF file.size < 1024 THEN file.size ELSE 1024
        parsed == HasHeader(data_len)
        created == CASE file.meta = "dated" -> file.created
                     [] file.meta = "undated" -> "Unknown"
                     [] OTHER -> "absent"
    IN IF parsed /\ data_len < HeaderSize
       THEN [raised |-> "struct.error", metadata |-> <<>>, warnings |-> {}]
       ELSE [raised |-> "None",
             metadata |-> [header_values |-> parsed, created |-> created],
             warnings |-> IF parsed /\ ~file.magic THEN {"Unexpected magic bytes"} ELSE {}]

\* Line 125.
SampledMessages == 10

\* Line 134.
TimestampFloor == 1000

\* Line 134.
TimestampCeiling == 65000

\* The non-zero bytes of a read.
NonZeroBytes(msg) == Cardinality({k \in DOMAIN msg : msg[k] # 0})

\* The non-zero bytes of a sequence of reads.
NonZeroBytesOf(msgs) ==
    Cardinality({ p \in UNION { {<<i, k>> : k \in DOMAIN msgs[i]} : i \in DOMAIN msgs } :
                    msgs[p[1]][p[2]] # 0 })

\* Line 104: the non-zero bytes of test_data.
non_zero_count(region) == NonZeroBytesOf(region.messages) + region.rest_non_zero

\* Mutant: a timestamp of 1000 or 65000 counts.
IsValidMessage_Inclusive(msg) ==
    /\ NonZeroBytes(msg) > 0
    /\ msg[2] * 256 + msg[1] >= TimestampFloor
    /\ msg[2] * 256 + msg[1] <= TimestampCeiling

\* Lines 131-135: sum(msg) > 0 and a timestamp within the range.
IsValidMessage(msg) ==
    /\ NonZeroBytes(msg) > 0
    /\ TimestampFloor < msg[2] * 256 + msg[1]
    /\ msg[2] * 256 + msg[1] < TimestampCeiling

RECURSIVE ValidMessagesFrom(_, _)
\* The loop of lines 125-135 from read i on: it ends at a read shorter than
\* message_size.
ValidMessagesFrom(msgs, i) ==
    IF i > Len(msgs) \/ i > SampledMessages THEN 0
    ELSE IF Len(msgs[i]) < 8 THEN 0
    ELSE (IF IsValidMessage(msgs[i]) THEN 1 ELSE 0) + ValidMessagesFrom(msgs, i + 1)

\* NDFReader._validate_telemetry_region (lines 118-137).
validate_telemetry_region(region) ==
    ValidMessagesFrom(region.messages, 1) >= EnoughValidMessages

\* Lines 97-108: whether the candidate offset is taken.
AcceptsOffset(file, offset) ==
    /\ offset < file.size
    /\ non_zero_count(file.regions[offset]) > SignificantNonZero
    /\ validate_telemetry_region(file.regions[offset])

RECURSIVE ProbeFrom(_, _)
\* The loop of lines 96-110 from candidate k on: the first offset taken, or
\* None.
ProbeFrom(file, k) ==
    IF k > Len(CandidateOffsets) THEN None
    ELSE IF AcceptsOffset(file, CandidateOffsets[k]) THEN CandidateOffsets[k]
    ELSE ProbeFrom(file, k + 1)

RECURSIVE ProbeLast(_, _, _)
\* The loop without its break: the last offset taken, or found.
ProbeLast(file, k, found) ==
    IF k > Len(CandidateOffsets) THEN found
    ELSE ProbeLast(file, k + 1,
                   IF AcceptsOffset(file, CandidateOffsets[k])
                   THEN CandidateOffsets[k] ELSE found)

\* Mutant: the loop goes on after an offset is taken.
find_data_section_NoBreak(file) ==
    LET found == ProbeLast(file, 1, None)
    IN IF found = None
       THEN [data_start_offset |-> FallbackOffset,
             warnings |-> {"Could not find telemetry data section"}]
       ELSE [data_start_offset |-> found, warnings |-> {}]

\* NDFReader._find_data_section (lines 89-116).
find_data_section(file) ==
    LET found == ProbeFrom(file, 1)
    IN IF found = None
       THEN [data_start_offset |-> FallbackOffset,
             warnings |-> {"Could not find telemetry data section"}]
       ELSE [data_start_offset |-> found, warnings |-> {}]

NoReader == [constructed |-> FALSE]

\* A cache attribute that is None (lines 35-36), and one that holds a value.
NotCached == [cached |-> FALSE]

Cached(value) == [cached |-> TRUE, value |-> value]

\* NDFReader(filepath) (lines 24-38): the exception open() or struct.unpack
\* raises, or the instance.  parses counts the passes of
\* _parse_telemetry_messages over the file.
NDFReader(file) ==
    IF ~file.exists THEN [raised |-> "FileNotFoundError", self |-> NoReader]
    ELSE LET meta == read_metadata(file)
             data == find_data_section(file)
         IN IF meta.raised # "None" THEN [raised |-> meta.raised, self |-> NoReader]
            ELSE [raised |-> "None",
                  self |-> [constructed |-> TRUE,
                            metadata |-> meta.metadata,
                            data_start_offset |-> data.data_start_offset,
                            message_size |-> 8,
                            parsed_messages |-> NotCached,
                            channels_cache |-> NotCached,
                            warnings |-> meta.warnings \cup data.warnings,
                            parses |-> 0]]

\* NDFReader.get_creation_date (lines 316-318).
get_creation_date(self) ==
    IF self.metadata.created = "absent" THEN "Unknown" ELSE self.metadata.created

\* A message of timestamp 1001 and nothing else, and a message of zeros.
PlainMessage == <<233, 3, 0, 0, 0, 0, 0, 0>>

ZeroMessage == <<0, 0, 0, 0, 0, 0, 0, 0>>

\* n times the message msg.
Repeat(msg, n) == [i \in 1 .. n |-> msg]

\* A region that is taken: 5 valid messages among the ten and 101 non-zero
\* bytes.
TakenKind ==
    [messages |-> Repeat(PlainMessage, 5) \o Repeat(ZeroMessage, 5), rest_non_zero |-> 91]

\* ... and regions that are not: 10 valid messages but 100 non-zero bytes, or
\* 300 non-zero bytes but 4 valid messages.
RejectedKinds ==
    { [messages |-> Repeat(PlainMessage, 10), rest_non_zero |-> 80],
      [messages |-> Repeat(PlainMessage, 4) \o Repeat(ZeroMessage, 6), rest_non_zero |-> 292] }

\* What is read at an offset at or after the end of the file.
Unread == [messages |-> <<>>, rest_non_zero |-> 0]

\* The offsets of CandidateOffsets, as a set.
CandidateSet == Range(CandidateOffsets)

\* The regions of a file of the given size: any set of the candidates within
\* the file is of the kind that is taken, the others of one rejected kind.
RegionsOf(size) ==
    { [c \in CandidateSet |-> IF c >= size THEN Unread
                              ELSE IF c \in taken THEN TakenKind ELSE rejected] :
        taken \in SUBSET CandidateSet, rejected \in RejectedKinds }

FileSizes == {0, 10, 1000, 30000}

\* Size, magic bytes and metadata block of the files: a dated block, a block
\* whose date has no end, a block without date, or none.
FileHeaders ==
    { h \in FileSizes \X BOOLEAN \X {"none", "dated", "undated", "no_date"} :
        /\ h[1] < HeaderSize => (h[3] = "none")
        /\ h[1] = 0 => ~h[2] }

\* An NDF file: records are the reads of message_size bytes from offset
\* records_at to the end of the file (the last one is shorter when the file
\* does not end on a record); what lies between the header and records_at is
\* zeros.
NdfFile(size, magic, meta, regions, records_at, records) ==
    [exists |-> TRUE, kind |-> "ndf", size |-> size, magic |-> magic, meta |-> meta,
     created |-> "2023-01-01 12:00:00", regions |-> regions,
     records_at |-> records_at, records |-> records]

NdfFiles ==
    UNION { { NdfFile(h[1], h[2], h[3], regions, h[1], <<>>) : regions \in RegionsOf(h[1]) } :
              h \in FileHeaders }

NoSuchFile == [exists |-> FALSE]

(***************************************************************************)
(* SpecOpen: NDFReader(filepath) on a file of any content, or on a path    *)
(* where there is no file.                                                 *)
(***************************************************************************)
InitOpen ==
    /\ GrouperIdle
    /\ exporter = [constructed |-> FALSE]
    /\ fs = <<>>
    /\ written = <<>>
    /\ last_call = [op |-> "none"]
    /\ calls = 0
    /\ disk \in NdfFiles \cup {NoSuchFile}
    /\ reader = NoReader

\* reader = NDFReader(filepath).
Construct ==
    /\ calls = 0
    /\ LET r == NDFReader(disk)
       IN /\ reader' = r.self
          /\ last_call' = [op |-> "NDFReader", raised |-> r.raised]
    /\ calls' = 1
    /\ UNCHANGED <<groupVars, disk, exporter, fs, written>>

NextOpen == Construct

SpecOpen == InitOpen /\ [][NextOpen]_vars

(***************************************************************************)
(* SpecProbe: NDFReader(filepath) on files whose region at offset 512 is   *)
(* at the limits of what _find_data_section takes.                         *)
(***************************************************************************)
\* Messages with a timestamp within the range: 1001 and 64999.
InRangeMessages == { PlainMessage, <<231, 253, 0, 0, 0, 0, 0, 0>> }

\* Messages that are not valid: timestamps 1000, 65000 and 0 with a sample,
\* and zeros.
OutOfRangeMessages ==
    { <<232, 3, 0, 0, 1, 0, 0, 0>>, <<232, 253, 0, 0, 1, 0, 0, 0>>,
      <<0, 0, 0, 0, 1, 0, 0, 0>>, ZeroMessage }

\* Regions of before messages out of range followed by valid messages in
\* range, 99, 100 or 101 of their bytes non-zero; and a region that ends,
\* with the file, within its sixth message.
ProbeRegions ==
    { [messages |-> Repeat(out, before) \o Repeat(in, valid),
       rest_non_zero |-> total - NonZeroBytesOf(Repeat(out, before) \o Repeat(in, valid))] :
        out \in OutOfRangeMessages, in \in InRangeMessages, before \in {0, 5, 6},
        valid \in {4, 5}, total \in {99, 100, 101} }
    \cup { [messages |-> Repeat(PlainMessage, 5) \o << <<233, 3, 1>> >>, rest_non_zero |-> 0] }

\* The size of a file that holds the region at the offset, and more unless
\* the region ends within a message.
SizeWith(offset, region, size) ==
    IF \E i \in DOMAIN region.messages : Len(region.messages[i]) < 8
    THEN offset + 8 * (Len(region.messages) - 1)
             + Len(region.messages[Len(region.messages)])
    ELSE size

\* Files with such a region at offset 512; the other regions within the file
\* are all of one kind.
ProbeFiles ==
    { NdfFile(SizeWith(512, region, size), TRUE, "dated",
              [c \in CandidateSet |->
                  IF c >= SizeWith(512, region, size) THEN Unread
                  ELSE IF c = 512 THEN region ELSE other],
              SizeWith(512, region, size), <<>>) :
        region \in ProbeRegions, size \in {1000, 30000},
        other \in {TakenKind} \cup RejectedKinds }

InitProbe ==
    /\ GrouperIdle
    /\ exporter = [constructed |-> FALSE]
    /\ fs = <<>>
    /\ written = <<>>
    /\ last_call = [op |-> "none"]
    /\ calls = 0
    /\ disk \in ProbeFiles
    /\ reader = NoReader

NextProbe == Construct

SpecProbe == InitProbe /\ [][NextProbe]_vars

(***************************************************************************)
(* NDFReader: reading channels.  A record is the sequence of its 8 bytes;  *)
(* the grouping is a dict, the sequence of its items [channel, messages]   *)
(* in insertion order.  Start times of the intervals of read_channel_data  *)
(* and interval_length are in whole seconds.                               *)
(***************************************************************************)
\* Mutant: the first byte of the timestamp is taken as the high one.
DecodeRecord_BigEndianTimestamp(rec) ==
    LET identifier == rec[3] + 256 * rec[4]
    IN [timestamp |-> rec[1] * 256 + rec[2],
        channel |-> identifier % 16,
        message_type |-> (identifier \div 16) % 16,
        samples |-> <<rec[5] + 256 * rec[6], rec[7] + 256 * rec[8]>>,
        raw_data |-> rec]

\* Lines 201-219: one telemetry message.
DecodeRecord(rec) ==
    LET identifier == rec[3] + 256 * rec[4]
    IN [timestamp |-> rec[2] * 256 + rec[1],
        channel |-> identifier % 16,
        message_type |-> (identifier \div 16) % 16,
        samples |-> <<rec[5] + 256 * rec[6], rec[7] + 256 * rec[8]>>,
        raw_data |-> rec]

\* The reads of message_size bytes (lines 191-194) from offset to the end of
\* the file.
ReadsFrom(file, offset) ==
    IF offset >= file.size THEN <<>>
    ELSE IF offset <= file.records_at
    THEN Repeat(ZeroMessage, (file.records_at - offset) \div 8) \o file.records
    ELSE SubSeq(file.records, (offset - file.records_at) \div 8 + 1, Len(file.records))

RECURSIVE ParseFrom(_, _)
\* The loop of lines 193-225 from read i on: it ends at a read shorter than
\* message_size.
ParseFrom(reads, i) ==
    IF i > Len(reads) THEN <<>>
    ELSE IF Len(reads[i]) < 8 THEN <<>>
    ELSE <<DecodeRecord(reads[i])>> \o ParseFrom(reads, i + 1)

\* NDFReader._parse_telemetry_messages (lines 183-227).
parse_telemetry_messages(self, file) == ParseFrom(ReadsFrom(file, self.data_start_offset), 1)

RECURSIVE GroupMessages(_, _)
\* Lines 244-249: grouped_messages after the messages of all_messages.
GroupMessages(all_messages, grouped) ==
    IF all_messages = <<>> THEN grouped
    ELSE LET msg == Head(all_messages)
             known == {i \in DOMAIN grouped : grouped[i].channel = msg.channel}
         IN GroupMessages(
                Tail(all_messages),
                IF known = {}
                THEN Append(grouped, [channel |-> msg.channel, messages |-> <<msg>>])
                ELSE [i \in DOMAIN grouped |->
                         IF i \in known
                         THEN [grouped[i] EXCEPT !.messages = Append(@, msg)]
                         ELSE grouped[i]])

\* Mutant: the cached grouping is never used.
CacheHit_Never(self) == FALSE

\* Line 237.
CacheHit(self) == self.parsed_messages.cached

\* NDFReader._parse_and_group_messages (lines 229-258): the instance after the
\* call and the grouping returned.
parse_and_group_messages(self, file) ==
    IF CacheHit(self) THEN [self |-> self, ret |-> self.parsed_messages.value]
    ELSE LET grouped == GroupMessages(parse_telemetry_messages(self, file), <<>>)
         IN [self |-> [self EXCEPT !.parsed_messages = Cached(grouped),
                                   !.channels_cache = Cached(Sorted(Keys(grouped))),
                                   !.parses = @ + 1],
             ret |-> grouped]

\* Mutant: the samples are held to 15 bits.
Clamp_To15Bit(sample) == IF sample < 0 THEN 0 ELSE IF sample > 32767 THEN 32767 ELSE sample

\* max(0, min(65535, sample)) (line 288).
Clamp(sample) == IF sample < 0 THEN 0 ELSE IF sample > 65535 THEN 65535 ELSE sample

\* Mutant: a long buffer is not trimmed.
PadOrTrim_NoTrim(samples, spi) ==
    IF Len(samples) < spi
    THEN samples \o [k \in 1 .. spi - Len(samples) |-> samples[Len(samples)]]
    ELSE samples

\* Lines 297-308: the buffer padded with its last value, or trimmed.
PadOrTrim(samples, spi) ==
    IF Len(samples) < spi
    THEN samples \o [k \in 1 .. spi - Len(samples) |-> samples[Len(samples)]]
    ELSE SubSeq(samples, 1, spi)

RECURSIVE IntervalsFrom(_, _, _, _, _, _)
\* The loop of lines 279-312 from message i on.
IntervalsFrom(messages, i, current_interval_samples, current_interval_start, spi, interval_length) ==
    IF i > Len(messages) THEN <<>>
    ELSE LET samples == current_interval_samples
                            \o [k \in 1 .. 2 |-> Clamp(messages[i].samples[k])]
         IN IF Len(samples) >= spi \/ i = Len(messages)
            THEN <<Interval(current_interval_start, PadOrTrim(samples, spi))>>
                     \o IntervalsFrom(messages, i + 1, <<>>,
                                      current_interval_start + interval_length, spi,
                                      interval_length)
            ELSE IntervalsFrom(messages, i + 1, samples, current_interval_start, spi,
                               interval_length)

\* Mutant: the start times begin at the first message's timestamp.
messages_to_intervals_StartAtFirstTimestamp(messages, sample_rate, interval_length) ==
    IF messages = <<>> THEN [raised |-> "None", ret |-> <<>>, sorted |-> messages]
    ELSE LET sorted == StableSortByKey(messages, "timestamp")
         IN IF sample_rate = None
            THEN [raised |-> "TypeError", ret |-> <<>>, sorted |-> sorted]
            ELSE [raised |-> "None",
                  ret |-> IntervalsFrom(sorted, 1, <<>>, sorted[1].timestamp,
                                        sample_rate * interval_length, interval_length),
                  sorted |-> sorted]

\* NDFReader._messages_to_intervals (lines 260-314): sorted is the list
\* messages after the sort in place of line 268; sample_rate None makes
\* int(sample_rate * interval_length) raise TypeError.
messages_to_intervals(messages, sample_rate, interval_length) ==
    IF messages = <<>> THEN [raised |-> "None", ret |-> <<>>, sorted |-> messages]
    ELSE LET sorted == StableSortByKey(messages, "timestamp")
         IN IF sample_rate = None
            THEN [raised |-> "TypeError", ret |-> <<>>, sorted |-> sorted]
            ELSE [raised |-> "None",
                  ret |-> IntervalsFrom(sorted, 1, <<>>, 0, sample_rate * interval_length,
                                        interval_length),
                  sorted |-> sorted]

\* NDFReader.read_channel_data(channel_num, sample_rate) (lines 139-181).
read_channel_data(self, file, channel_num, sample_rate) ==
    LET parsed == parse_and_group_messages(self, file)
        grouped_messages == parsed.ret
        at == {i \in DOMAIN grouped_messages : grouped_messages[i].channel = channel_num}
    IN IF at = {} THEN [self |-> parsed.self, raised |-> "None", ret |-> <<>>]
       ELSE LET i == CHOOSE i \in at : TRUE
                built == messages_to_intervals(grouped_messages[i].messages, sample_rate, 1)
            IN [self |-> [parsed.self EXCEPT
                              !.parsed_messages.value[i].messages = built.sorted],
                raised |-> built.raised,
                ret |-> built.ret]

\* NDFReader.get_available_channels (lines 320-338).
get_available_channels(self, file) ==
    IF self.channels_cache.cached THEN [self |-> self, ret |-> self.channels_cache.value]
    ELSE LET parsed == parse_and_group_messages(self, file)
         IN [self |-> parsed.self,
             ret |-> IF parsed.self.channels_cache.cached
                     THEN parsed.self.channels_cache.value ELSE <<>>]

\* Largest number of records in the data section.
MaxRecords == 3

\* Largest number of calls on one reader.
MaxReads == 2

\* Records of channel 1 (timestamps 2 and 1) and of channel 5 with message
\* type 1 and samples 65535 and 256.
Records ==
    { <<2, 0, 1, 0, 10, 0, 20, 0>>,
      <<1, 0, 1, 0, 30, 0, 40, 0>>,
      <<1, 0, 21, 0, 255, 255, 0, 1>> }

\* What may follow the last record: nothing, or three bytes of one more.
Fragments == { <<>>, << <<1, 0, 1>> >> }

\* The number of bytes of a sequence of reads.
BytesOf(reads) == IF reads = <<>> THEN 0 ELSE 8 * (Len(reads) - 1) + Len(reads[Len(reads)])

\* The smaller of two numbers.
Min(a, b) == IF a < b THEN a ELSE b

\* The region at candidate offset c of a file of the given size that holds
\* zeros up to records_at and the records from there: 1024 bytes are 128
\* reads.
RegionAt(size, records_at, records, c) ==
    IF c >= size THEN Unread
    ELSE LET reads == IF c <= records_at
                      THEN Repeat(ZeroMessage, Min(128, (records_at - c) \div 8)) \o records
                      ELSE SubSeq(records, (c - records_at) \div 8 + 1, Len(records))
         IN [messages |-> SubSeq(reads, 1, Min(128, Len(reads))), rest_non_zero |-> 0]

\* The file that holds the records at records_at.
FileOf(records_at, records) ==
    NdfFile(records_at + BytesOf(records), TRUE, "dated",
            [c \in CandidateSet |-> RegionAt(records_at + BytesOf(records), records_at, records, c)],
            records_at, records)

\* Messages of timestamp 2000: of channel 1 with 8 non-zero bytes, and of
\* channel 0 and the given message type with 4 non-zero bytes and the
\* identifier.
FullMessage == <<208, 7, 1, 255, 1, 1, 1, 1>>

SparseMessage(message_type) == <<208, 7, 16 * message_type, 0, 1, 0, 1, 0>>

\* Files of zeros up to the fallback offset, where the records start (no
\* candidate offset is taken); a file that ends before the fallback offset;
\* and files whose 13 records start at offset 512, 100 or 101 of their bytes
\* non-zero.
ReadFiles ==
    { FileOf(FallbackOffset, records \o fragment) :
        records \in SeqsUpTo(Records, MaxRecords), fragment \in Fragments }
    \cup { NdfFile(1000, TRUE, "dated",
                   [c \in CandidateSet |-> RegionAt(1000, 1000, <<>>, c)], 1000, <<>>) }
    \cup { FileOf(512, Repeat(FullMessage, 12) \o <<SparseMessage(message_type)>>) :
             message_type \in {0, 1} }

(***************************************************************************)
(* SpecReader: at most MaxReads calls of get_available_channels and        *)
(* read_channel_data on one NDFReader.                                     *)
(***************************************************************************)
InitReader ==
    /\ GrouperIdle
    /\ exporter = [constructed |-> FALSE]
    /\ fs = <<>>
    /\ written = <<>>
    /\ last_call = [op |-> "none"]
    /\ calls = 0
    /\ disk \in ReadFiles
    /\ reader = NDFReader(disk).self

\* reader.get_available_channels().
GetAvailableChannels ==
    /\ calls < MaxReads
    /\ LET r == get_available_channels(reader, disk)
       IN /\ reader' = r.self
          /\ last_call' = [op |-> "get_available_channels", raised |-> "None",
                           ret |-> r.ret]
    /\ calls' = calls + 1
    /\ UNCHANGED <<groupVars, disk, exporter, fs, written>>

\* reader.read_channel_data(channel_num, sample_rate).
ReadChannelData ==
    /\ calls < MaxReads
    /\ \E channel_num \in {0, 1, 5}, sample_rate \in {None, 0, 1, 2, 3, 4} :
           LET r == read_channel_data(reader, disk, channel_num, sample_rate)
           IN /\ reader' = r.self
              /\ last_call' = [op |-> "read_channel_data", channel_num |-> channel_num,
                               sample_rate |-> sample_rate, raised |-> r.raised,
                               ret |-> r.ret]
    /\ calls' = calls + 1
    /\ UNCHANGED <<groupVars, disk, exporter, fs, written>>

NextReader ==
    \/ GetAvailableChannels
    \/ ReadChannelData

SpecReader == InitReader /\ [][NextReader]_vars

(***************************************************************************)
(* NDFToTextConverter and bulk_convert_ndf_to_text, for one session.  The  *)
(* session directory is [exists, files]: whether it is there, and per      *)
(* E<channel>.txt NoFile or the lines of the file.  An archive of the      *)
(* session is [name, file].                                                *)
(***************************************************************************)
\* NDFReader.get_channel_sample_rate, which convert_ndf_file and
\* bulk_convert_ndf_to_text call and ndf_reader.py does not hold: 128 Hz for
\* channel 0, 512 Hz for the others.
get_channel_sample_rate(self, channel) == IF channel = 0 THEN 128 ELSE 512

\* f"E{channel}.txt" (lines 144 and 487).
OutputFile(channel) == "E" \o ToString(channel) \o ".txt"

\* One line f"{sample}\n" per sample (lines 189-191 and 491-493).
SampleLines(intervals) ==
    Flatten([k \in DOMAIN intervals |->
                [i \in DOMAIN intervals[k].samples |-> ToString(intervals[k].samples[i])]])

\* The header of lines 176-186; the conversion date is whatever the clock
\* says.
MetadataLines(input_file, ndf_reader, channel, intervals) ==
    << "# NDF to Text Conversion",
       "# Source file: " \o input_file,
       "# Channel: " \o ToString(channel),
       "# Creation date: " \o get_creation_date(ndf_reader),
       "# Total intervals: " \o ToString(Len(intervals)),
       "# Conversion date: now",
       "#",
       "# Format: One sample value per line (16-bit integers)",
       "#" >>

\* NDFToTextConverter._write_simple_format (lines 169-191): the lines of the
\* file it writes.
write_simple_format(self, input_file, intervals, ndf_reader, channel) ==
    (IF self.include_metadata THEN MetadataLines(input_file, ndf_reader, channel, intervals)
     ELSE <<>>) \o SampleLines(intervals)

\* f"{interval_time:.6f}" of an interval time, which is a whole number of
\* seconds.
SixDecimals(interval_time) == ToString(interval_time) \o ".000000"

\* NDFToTextConverter._write_detailed_format (lines 193-220) without
\* timestamps.
write_detailed_format(self, input_file, intervals, ndf_reader, channel) ==
    (IF self.include_metadata
     THEN [MetadataLines(input_file, ndf_reader, channel, intervals) EXCEPT
               ![1] = "# NDF to Text Conversion - Detailed Format",
               ![8] = "# Format: [interval_time] [sample_index] [sample_value]"]
     ELSE <<>>)
        \o Flatten([k \in DOMAIN intervals |->
                       <<"# Interval start: " \o SixDecimals(intervals[k].start) \o " seconds">>
                           \o [i \in DOMAIN intervals[k].samples |->
                                  SixDecimals(intervals[k].start) \o " " \o ToString(i - 1)
                                      \o " " \o ToString(intervals[k].samples[i])]])

\* NDFToTextConverter._write_csv_format (lines 222-240) without timestamps.
write_csv_format(self, intervals) ==
    <<"interval_time,sample_index,sample_value">>
        \o Flatten([k \in DOMAIN intervals |->
                       [i \in DOMAIN intervals[k].samples |->
                           SixDecimals(intervals[k].start) \o "," \o ToString(i - 1)
                               \o "," \o ToString(intervals[k].samples[i])]])

\* NDFToTextConverter._convert_channel (lines 125-167): the reader after the
\* call, whether a file was written (None is returned otherwise) and its
\* lines.
convert_channel(self, ndf_reader, file, channel, input_file, sample_rate) ==
    LET r == read_channel_data(ndf_reader, file, channel, sample_rate)
    IN IF r.raised # "None" \/ r.ret = <<>>
       THEN [self |-> r.self, wrote |-> FALSE, lines |-> <<>>]
       ELSE IF self.output_format = "simple"
       THEN [self |-> r.self, wrote |-> TRUE,
             lines |-> write_simple_format(self, input_file, r.ret, r.self, channel)]
       ELSE IF self.output_format = "detailed"
       THEN [self |-> r.self, wrote |-> TRUE,
             lines |-> write_detailed_format(self, input_file, r.ret, r.self, channel)]
       ELSE IF self.output_format = "csv"
       THEN [self |-> r.self, wrote |-> TRUE, lines |-> write_csv_format(self, r.ret)]
       ELSE [self |-> r.self, wrote |-> FALSE, lines |-> <<>>]

\* The argument channels: Optional[List[int]]: None, or a list.
NoChannels == [given |-> FALSE, value |-> <<>>]

ChannelList(value) == [given |-> TRUE, value |-> value]

\* available_channels if channels is None else [ch for ch in channels if ch
\* in available_channels] (lines 84-87 and 466-471).
ProcessChannels(channels, available_channels) ==
    IF ~channels.given THEN available_channels
    ELSE LET IsAvailable(ch) == ch \in Range(available_channels)
         IN SelectSeq(channels.value, IsAvailable)

\* F(value), with value worked out once and not at each of its uses in F.
With(value, F(_)) == CHOOSE result \in {F(v) : v \in {value}} : TRUE

RECURSIVE ConvertChannels(_, _, _, _, _, _, _, _)
\* The loop of lines 104-116 from channel i of process_channels on: the files
\* of the directory and created_files after it.
ConvertChannels(self, ndf_reader, archive, files, process_channels, i, sample_rate, created_files) ==
    IF i > Len(process_channels) THEN [files |-> files, created_files |-> created_files]
    ELSE LET channel == process_channels[i]
             rate == IF sample_rate # None THEN sample_rate
                     ELSE get_channel_sample_rate(ndf_reader, channel)
             Rest(c) ==
                 ConvertChannels(self, c.self, archive,
                                 IF c.wrote THEN [files EXCEPT ![OutputFile(channel)] = c.lines]
                                 ELSE files,
                                 process_channels, i + 1, sample_rate,
                                 IF c.wrote THEN Append(created_files, OutputFile(channel))
                                 ELSE created_files)
         IN With(convert_channel(self, ndf_reader, archive.file, channel, archive.name, rate),
                 Rest)

\* NDFToTextConverter.convert_ndf_file (lines 52-123): the directory after the
\* call and the list returned; an exception ends it with the empty list.
convert_ndf_file(self, dir, archive, channels, sample_rate) ==
    LET WhenListed(available) ==
            LET process_channels == ProcessChannels(channels, available.ret)
                Made(done) == [dir |-> [exists |-> TRUE, files |-> done.files],
                               ret |-> done.created_files]
            IN IF available.ret = <<>> \/ process_channels = <<>>
               THEN [dir |-> dir, ret |-> <<>>]
               ELSE With(ConvertChannels(self, available.self, archive, dir.files,
                                         process_channels, 1, sample_rate, <<>>),
                         Made)
        WhenOpened(opened) ==
            IF opened.raised # "None" THEN [dir |-> dir, ret |-> <<>>]
            ELSE With(get_available_channels(opened.self, archive.file), WhenListed)
    IN With(NDFReader(archive.file), WhenOpened)

RECURSIVE AppendChannels(_, _, _, _, _, _)
\* The loop of lines 473-493 from channel i of process_channels on: open(
\* output_file, "a") raises FileNotFoundError when the directory is not there
\* and creates the file when it is not.
AppendChannels(ndf_reader, archive, dir, process_channels, i, sample_rate) ==
    IF i > Len(process_channels) THEN [dir |-> dir, raised |-> "None"]
    ELSE LET channel == process_channels[i]
             rate == IF sample_rate # None THEN sample_rate
                     ELSE get_channel_sample_rate(ndf_reader, channel)
             output_file == OutputFile(channel)
             Rest(r) ==
                 IF r.raised # "None" THEN [dir |-> dir, raised |-> r.raised]
                 ELSE IF r.ret = <<>>
                 THEN AppendChannels(r.self, archive, dir, process_channels, i + 1, sample_rate)
                 ELSE IF ~dir.exists THEN [dir |-> dir, raised |-> "FileNotFoundError"]
                 ELSE AppendChannels(
                          r.self, archive,
                          [dir EXCEPT !.files[output_file] =
                              (IF @ = NoFile THEN <<>> ELSE @) \o SampleLines(r.ret)],
                          process_channels, i + 1, sample_rate)
         IN With(read_channel_data(ndf_reader, archive.file, channel, rate), Rest)

\* Lines 459-493 of bulk_convert_ndf_to_text: an archive after the first of its
\* session.
AppendArchive(dir, archive, channels, sample_rate) ==
    LET WhenListed(available) ==
            AppendChannels(available.self, archive, dir,
                           ProcessChannels(channels, available.ret), 1, sample_rate)
        WhenOpened(opened) ==
            IF opened.raised # "None" THEN [dir |-> dir, raised |-> opened.raised]
            ELSE With(get_available_channels(opened.self, archive.file), WhenListed)
    IN With(NDFReader(archive.file), WhenOpened)

\* Largest number of archives in a session.
MaxSession == 3

\* The archives: without message, with a message of channel 1, and with
\* messages of channels 1 and 0.
SessionArchives ==
    { FileOf(FallbackOffset, records) :
        records \in { <<>>,
                      << <<1, 0, 1, 0, 30, 0, 40, 0>> >>,
                      << <<2, 0, 1, 0, 10, 0, 20, 0>>, <<1, 0, 16, 0, 255, 255, 0, 1>> >> } }

\* The sessions: two archives or more, named in chronological order.
Sessions(n) ==
    { [i \in DOMAIN files |-> [name |-> "M" \o ToString(i) \o ".ndf", file |-> files[i]]] :
        files \in {session \in SeqsUpTo(SessionArchives, n) : Len(session) >= 2} }

\* NDFToTextConverter(output_format, include_timestamps, include_metadata)
\* (lines 33-50) with the arguments channels and sample_rate of the call.
Conversion(output_format, include_metadata, channels, sample_rate) ==
    [output_format |-> output_format, include_timestamps |-> FALSE,
     include_metadata |-> include_metadata, channels |-> channels,
     sample_rate |-> sample_rate]

\* The conversions asked for.
Conversions ==
    { Conversion("simple", TRUE, NoChannels, None),
      Conversion("simple", FALSE, ChannelList(<<1, 0>>), 2),
      Conversion("detailed", TRUE, NoChannels, 2),
      Conversion("csv", FALSE, ChannelList(<<0>>), 2) }

ChannelFiles == {OutputFile(channel) : channel \in {0, 1}}

(***************************************************************************)
(* SpecBulk: the archives of one session converted in turn, the first by   *)
(* convert_ndf_file and the others appended, into a session directory that *)
(* is not there yet.                                                       *)
(***************************************************************************)
InitBulk ==
    /\ ndf_files \in Sessions(MaxSession)
    /\ gap_threshold = 0
    /\ grouping = NotCalled
    /\ ReaderIdle
    /\ exporter \in Conversions
    /\ fs = [exists |-> FALSE, files |-> [f \in ChannelFiles |-> NoFile]]
    /\ written = [f \in ChannelFiles |-> "none"]
    /\ last_call = [op |-> "bulk_convert_ndf_to_text", raised |-> "None",
                    session_created_files |-> <<>>]
    /\ calls = 0

\* written after a step that took the directory from dir to after: the files
\* that are now there and were not (or were written anew) are by.
CreatedBy(dir, after, by, anew) ==
    [f \in ChannelFiles |->
        IF after.files[f] # NoFile /\ (dir.files[f] = NoFile \/ f \in anew) THEN by
        ELSE written[f]]

\* file_idx == 0 (lines 450-458).
ConvertFirstArchive ==
    /\ calls = 0
    /\ \E r \in {convert_ndf_file(exporter, fs, ndf_files[1], exporter.channels,
                                  exporter.sample_rate)} :
          /\ fs' = r.dir
          /\ written' = CreatedBy(fs, r.dir, "first", Range(r.ret))
          /\ last_call' = [last_call EXCEPT !.session_created_files = @ \o r.ret]
    /\ calls' = 1
    /\ UNCHANGED <<groupVars, exporter, readVars>>

\* file_idx > 0 (lines 459-493).
AppendNextArchive ==
    /\ calls >= 1
    /\ calls < Len(ndf_files)
    /\ last_call.raised = "None"
    /\ \E r \in {AppendArchive(fs, ndf_files[calls + 1], exporter.channels,
                               exporter.sample_rate)} :
          /\ fs' = r.dir
          /\ written' = CreatedBy(fs, r.dir, "later", {})
          /\ last_call' = [last_call EXCEPT !.raised = r.raised]
    /\ calls' = calls + 1
    /\ UNCHANGED <<groupVars, exporter, readVars>>

NextBulk ==
    \/ ConvertFirstArchive
    \/ AppendNextArchive

SpecBulk == InitBulk /\ [][NextBulk]_vars

(***************************************************************************)
(* Claims on session grouping (checked under SpecGroup).                   *)
(***************************************************************************)
GroupReturned == grouping.raised = "None"

\* The files of the result in the order the sessions list them.
GroupedFiles == Flatten(grouping.sessions)

RECURSIVE SessionStarts(_, _)
\* Positions in Flatten(sessions) at which a session starts; pos is the position
\* of the first file of Head(sessions).
SessionStarts(sessions, pos) ==
    IF sessions = <<>> THEN {}
    ELSE {pos} \cup SessionStarts(Tail(sessions), pos + Len(Head(sessions)))

\* ts(i) - (ts(i-1) + duration(i-1)), an unresolved duration counting as 0,
\* read off the input files prev and curr (names are places in ndf_files).
GapBetween(prev, curr) ==
    ndf_files[curr].ts
      - (ndf_files[prev].ts + (IF ndf_files[prev].dur = None THEN 0 ELSE ndf_files[prev].dur))

Orderings(s) ==
    { [i \in DOMAIN s |-> s[p[i]]] :
        p \in {q \in [DOMAIN s -> DOMAIN s] : \A a, b \in DOMAIN s : a # b => q[a] # q[b]} }

DistinctTimestamps ==
    \A a, b \in DOMAIN ndf_files :
        (a # b /\ ndf_files[a].ts # None /\ ndf_files[b].ts # None)
            => ndf_files[a].ts # ndf_files[b].ts

\* C2: every session lists its files in ascending timestamp order, the last
\* file of a session is not later than the first file of the next one, and
\* when the timestamps are distinct every order of the input gives this result.
C2_ChronologicalWhateverInputOrder ==
    GroupReturned =>
        /\ \A k \in DOMAIN grouping.sessions :
               LET s == grouping.sessions[k]
               IN \A i \in 1 .. Len(s) - 1 : ndf_files[s[i]].ts <= ndf_files[s[i + 1]].ts
        /\ \A k \in 1 .. Len(grouping.sessions) - 1 :
               LET s == grouping.sessions[k]
                   t == grouping.sessions[k + 1]
               IN ndf_files[s[Len(s)]].ts <= ndf_files[t[1]].ts
        /\ DistinctTimestamps =>
               \A p \in Orderings(ndf_files) :
                   group_ndf_files_into_sessions(p, gap_threshold) = grouping

\* C2 witness: files given latest first, with distinct timestamps, were grouped
\* into more than one session.
C2_Witness ==
    /\ GroupReturned
    /\ Len(ndf_files) = MaxFiles
    /\ DistinctTimestamps
    /\ \A i \in 1 .. Len(ndf_files) - 1 :
           ndf_files[i].ts # None /\ ndf_files[i + 1].ts # None
             /\ ndf_files[i].ts > ndf_files[i + 1].ts
    /\ Len(grouping.sessions) >= 2
    /\ \E k \in DOMAIN grouping.sessions : Len(grouping.sessions[k]) >= 2

GroupCalled == grouping # NotCalled

AllPathsExist == \A i \in DOMAIN ndf_files : ndf_files[i].exists

\* C3: an empty file list returns the empty session list; when the listed files
\* exist, the call returns without raising, no file without a timestamp is in a
\* session, and with no timestamp at all the result is the empty session list.
C3_UnusableInputNeverRaises ==
    GroupCalled =>
        /\ ndf_files = <<>> => grouping = Returned(<<>>)
        /\ AllPathsExist =>
               /\ GroupReturned
               /\ \A i \in DOMAIN ndf_files :
                      ndf_files[i].ts = None => i \notin Range(GroupedFiles)
               /\ (\A i \in DOMAIN ndf_files : ndf_files[i].ts = None)
                      => grouping.sessions = <<>>

\* C3 witness: a call on files none of which has a timestamp returned.
C3_Witness ==
    /\ GroupCalled
    /\ Len(ndf_files) >= 2
    /\ AllPathsExist
    /\ \A i \in DOMAIN ndf_files : ndf_files[i].ts = None
    /\ grouping = Returned(<<>>)

(***************************************************************************)
(* Claims on export_multi_channel (checked under SpecMulti).               *)
(***************************************************************************)
MultiCalled == last_call.op = "export_multi_channel"

MultiReturned == MultiCalled /\ last_call.raised = "None"

\* The data lines of the file the last call wrote: what follows the 5 header lines.
WrittenData ==
    LET file == fs[last_call.output_file] IN SubSeq(file, 6, Len(file))

\* The channel ids of the map, as a set.
MapChannels == {last_call.channel_data[i].channel : i \in DOMAIN last_call.channel_data}

\* The k-th smallest channel id of the map.
KthChannel(k) ==
    CHOOSE c \in MapChannels : Cardinality({d \in MapChannels : d < c}) = k - 1

IntervalsOf(c) ==
    last_call.channel_data[CHOOSE i \in DOMAIN last_call.channel_data :
                               last_call.channel_data[i].channel = c].intervals

\* The time, to the nanosecond, of sample i (from 0) of an interval of channel c
\* that starts at t: t + i/128 for channel 0 and t + i/512 for the others.
Stamp(c, t, i) ==
    Round9(t + i * (IF c = 0 THEN SamplePeriod(128) ELSE SamplePeriod(512)))

\* The samples of channel c: <<n, i>> is sample i (from 1) of interval n.
SampleIndexes(c) ==
    UNION {{<<n, i>> : i \in 1 .. Len(IntervalsOf(c)[n].samples)} :
              n \in DOMAIN IntervalsOf(c)}

\* The times at which channel c has a sample.
StampsOf(c) ==
    {Stamp(c, IntervalsOf(c)[p[1]].start, p[2] - 1) : p \in SampleIndexes(c)}

\* The distinct times over all channels.
AllStamps == UNION {StampsOf(c) : c \in MapChannels}

\* The k-th smallest time (None when there are fewer than k).
KthStamp(k) ==
    IF k \in 1 .. Cardinality(AllStamps)
    THEN CHOOSE t \in AllStamps : Cardinality({u \in AllStamps : u < t}) = k - 1
    ELSE None

\* The time column of the line of time t.
TimeField(t) ==
    format_value(exporter,
                 IF exporter.absolute_time THEN t ELSE t - exporter.start_time, TRUE)

\* C4: a call with an empty channel map, or with some channel mapped to an
\* empty interval list, raises ValueError.
C4_RejectsEmptyMapAndEmptyChannel ==
    MultiCalled =>
        ((\/ last_call.channel_data = <<>>
          \/ \E i \in DOMAIN last_call.channel_data :
                 last_call.channel_data[i].intervals = <<>>)
            => last_call.raised = "ValueError")

\* C4 witness: a map whose first channel has samples and whose other channel
\* has no interval was rejected.
C4_Witness ==
    /\ MultiCalled
    /\ Len(last_call.channel_data) = 2
    /\ \E i \in DOMAIN last_call.channel_data[1].intervals :
           last_call.channel_data[1].intervals[i].samples # <<>>
    /\ last_call.channel_data[2].intervals = <<>>
    /\ last_call.raised = "ValueError"

\* C5: a call returns only when every channel has an interval with samples,
\* and then every voltage column of the file is non-blank in some data line.
C5_NoAllBlankColumn ==
    MultiReturned =>
        /\ \A c \in MapChannels :
               \E n \in DOMAIN IntervalsOf(c) : IntervalsOf(c)[n].samples # <<>>
        /\ \A k \in 1 .. Cardinality(MapChannels) :
               \E n \in DOMAIN WrittenData : WrittenData[n].fields[k + 1] # ""

\* C6: the file has one data line per distinct time to the nanosecond, and
\* the k-th data line is the line of the k-th smallest time.
C6_OneLinePerDistinctTime ==
    MultiReturned =>
        /\ Len(WrittenData) = Cardinality(AllStamps)
        /\ \A k \in DOMAIN WrittenData : WrittenData[k].fields[1] = TimeField(KthStamp(k))

\* C6 witness: two channels with samples a fraction of a nanosecond apart, and
\* with samples at times of their own, were written.
C6_Witness ==
    /\ MultiReturned
    /\ Cardinality(MapChannels) = 2
    /\ \E c, d \in MapChannels :
           /\ c # d
           /\ \E n \in DOMAIN IntervalsOf(c), m \in DOMAIN IntervalsOf(d) :
                  /\ IntervalsOf(c)[n].start = IntervalsOf(d)[m].start + 1
                  /\ IntervalsOf(c)[n].samples # <<>>
                  /\ IntervalsOf(d)[m].samples # <<>>
           /\ StampsOf(c) # StampsOf(d)
    /\ Len(WrittenData) = Cardinality(AllStamps)
    /\ Len(WrittenData) >= 3

\* C7: every data line has 1 + N tab-separated fields for N channels, and the
\* field of the k-th channel is blank exactly when that channel has no sample
\* at the time of the line.
C7_FieldsAndBlanks ==
    MultiReturned =>
        \A n \in DOMAIN WrittenData :
            /\ WrittenData[n].sep = "\t"
            /\ Len(WrittenData[n].fields) = 1 + Cardinality(MapChannels)
            /\ \A k \in 1 .. Cardinality(MapChannels) :
                   (WrittenData[n].fields[k + 1] = "")
                       <=> (KthStamp(n) \notin StampsOf(KthChannel(k)))

\* C7 witness: a file of two channels with a line where one is blank and a
\* line where both have a value.
C7_Witness ==
    /\ MultiReturned
    /\ Cardinality(MapChannels) = 2
    /\ \E n \in DOMAIN WrittenData :
           WrittenData[n].fields[2] = "" /\ WrittenData[n].fields[3] # ""
    /\ \E n \in DOMAIN WrittenData :
           WrittenData[n].fields[2] # "" /\ WrittenData[n].fields[3] # ""

RECURSIVE AscendingTitles(_)
\* The ids of the set S in ascending order, joined by ", ".
AscendingTitles(S) ==
    IF S = {} THEN ""
    ELSE LET least == CHOOSE c \in S : \A d \in S : c <= d
         IN IF S = {least} THEN ToString(least)
            ELSE ToString(least) \o ", " \o AscendingTitles(S \ {least})

\* The values channel c gives at time t, formatted.
ValuesAt(c, t) ==
    {format_value(exporter,
                  Voltage(exporter, apply_glitch_filter(exporter, IntervalsOf(c)[n].samples)[i]),
                  FALSE) :
        <<n, i>> \in {p \in SampleIndexes(c) :
                        Stamp(c, IntervalsOf(c)[p[1]].start, p[2] - 1) = t}}

\* C8: whatever the order of the keys, the ChannelTitle line lists the ids in
\* ascending order joined by ", ", and the k-th voltage column of every data
\* line holds a value of the k-th smallest channel id.
C8_ChannelsAscending ==
    MultiReturned =>
        /\ fs[last_call.output_file][4]
               = HeaderLine("ChannelTitle", AscendingTitles(MapChannels))
        /\ \A n \in DOMAIN WrittenData :
               \A k \in 1 .. Cardinality(MapChannels) :
                   WrittenData[n].fields[k + 1] # ""
                       => WrittenData[n].fields[k + 1] \in ValuesAt(KthChannel(k), KthStamp(n))

\* C8 witness: a map whose keys were given largest first, with different
\* samples, was written.
C8_Witness ==
    /\ MultiReturned
    /\ Len(last_call.channel_data) = 2
    /\ last_call.channel_data[1].channel > last_call.channel_data[2].channel
    /\ last_call.channel_data[1].intervals # last_call.channel_data[2].intervals
    /\ Len(WrittenData) >= 2

\* C9: whatever sample_rate the exporter has, channel c has a value exactly on
\* the lines of the times t + i/128 (c = 0) or t + i/512 (c # 0) of its samples;
\* and when channel 0 has one interval, which starts with an interval of
\* another channel, sample i of that interval shares its line with channel 0
\* exactly when i is 4 j for a sample j of channel 0.
C9_PerChannelSampleRate ==
    MultiReturned =>
        /\ \A k \in 1 .. Cardinality(MapChannels) :
               {KthStamp(n) : n \in {m \in DOMAIN WrittenData :
                                       WrittenData[m].fields[k + 1] # ""}}
                   = StampsOf(KthChannel(k))
        /\ (0 \in MapChannels /\ Len(IntervalsOf(0)) = 1) =>
               \A c \in MapChannels \ {0} :
                   \A m \in DOMAIN IntervalsOf(c) :
                       IntervalsOf(c)[m].start = IntervalsOf(0)[1].start =>
                           \A i \in 0 .. Len(IntervalsOf(c)[m].samples) - 1 :
                               \E n \in DOMAIN WrittenData :
                                   /\ KthStamp(n) = Stamp(c, IntervalsOf(c)[m].start, i)
                                   /\ (WrittenData[n].fields[2] # "")
                                        <=> (/\ i % 4 = 0
                                             /\ i \div 4 < Len(IntervalsOf(0)[1].samples))

\* C9 witness: an exporter of sample_rate 128 wrote channel 0 (two samples)
\* and a 512 Hz channel (five samples) that start together: the lines of
\* samples 0 and 4 hold both channels, those of samples 1 to 3 only one.
C9_Witness ==
    /\ MultiReturned
    /\ exporter.sample_rate = 128
    /\ MapChannels = {0, 5}
    /\ Len(IntervalsOf(0)) = 1 /\ Len(IntervalsOf(0)[1].samples) = 2
    /\ Len(IntervalsOf(5)) = 1 /\ Len(IntervalsOf(5)[1].samples) = 5
    /\ IntervalsOf(0)[1].start = IntervalsOf(5)[1].start
    /\ Len(WrittenData) = 5
    /\ \A n \in {1, 5} : WrittenData[n].fields[2] # "" /\ WrittenData[n].fields[3] # ""
    /\ \A n \in {2, 3, 4} : WrittenData[n].fields[2] = "" /\ WrittenData[n].fields[3] # ""

(***************************************************************************)
(* Claims on single-channel export (checked under Spec).                   *)
(***************************************************************************)
RECURSIVE TotalSamples(_)
\* The number of samples in the sequence of sample lists writes.
TotalSamples(writes) ==
    IF writes = <<>> THEN 0 ELSE Len(Head(writes)) + TotalSamples(Tail(writes))

\* The voltage column export_interval writes for the sample lists writes, call
\* after call.
VoltageColumn(writes) ==
    Flatten([n \in DOMAIN writes |->
                [k \in DOMAIN writes[n] |->
                    format_value(exporter,
                                 Voltage(exporter, apply_glitch_filter(exporter, writes[n])[k]),
                                 FALSE)]])

\* The files whose first write was a single-channel export to a path that
\* did not exist.
SingleChannelFiles == {f \in Targets : written[f].creator = "single"}

\* C10: a file first written by a single-channel export to a non-existent path
\* is the 5 header lines, once, then as many data lines as the calls have
\* passed samples, in call order; and export_interval returns the number of
\* samples it was passed.
C10_HeaderOnceThenDataInCallOrder ==
    /\ \A f \in SingleChannelFiles :
           /\ Exists(fs, f)
           /\ Len(fs[f]) = 5 + TotalSamples(written[f].writes)
           /\ [n \in 1 .. 5 |-> fs[f][n].key]
                  = <<"Interval", "DateTime", "TimeFormat", "ChannelTitle", "Range">>
           /\ \A n \in 6 .. Len(fs[f]) : fs[f][n].key = "" /\ fs[f][n].sep = " "
           /\ [n \in 1 .. Len(fs[f]) - 5 |-> fs[f][n + 5].fields[2]]
                  = VoltageColumn(written[f].writes)
    /\ last_call.op = "export_interval" => last_call.ret = Len(last_call.signal_values)

\* C10 witness: a second export_interval has appended five samples to a file
\* that an earlier single-channel export created with two samples.
C10_Witness ==
    /\ calls = 2
    /\ last_call.op = "export_interval"
    /\ last_call.ret = 5
    /\ written[last_call.filename].creator = "single"
    /\ Len(written[last_call.filename].writes) = 2
    /\ Len(written[last_call.filename].writes[1]) = 2
    /\ Len(fs[last_call.filename]) = 12

(***************************************************************************)
(* Claims on the exporter's start_time (checked under Spec).               *)
(***************************************************************************)
\* C11: in absolute-time mode start_time is never set; in relative-time mode
\* no call rebinds a start_time that is set.
C11_StartTimeBoundOnce ==
    [][/\ exporter.absolute_time => exporter'.start_time = None
       /\ (~exporter.absolute_time /\ exporter.start_time # None)
              => exporter'.start_time = exporter.start_time]_vars

(***************************************************************************)
(* Claims on the text and binary readers (checked under SpecSignal).       *)
(***************************************************************************)
SignalReturned ==
    /\ last_call.op \in {"TextSignalReader.read_signal",
                         "SimpleBinarySignalReader.read_signal"}
    /\ last_call.raised = "None"

\* C12: every sample of every interval a reader returns is in 0 .. 65535.
C12_SamplesAre16Bit ==
    SignalReturned =>
        \A n \in DOMAIN last_call.ret :
            \A k \in DOMAIN last_call.ret[n].samples :
                last_call.ret[n].samples[k] \in 0 .. 65535

(***************************************************************************)
(* Claims on the glitch filter (checked under SpecFilter).                 *)
(***************************************************************************)
FilterCalled == last_call.op = "_apply_glitch_filter"

\* Whether sample i of in differs from both its neighbours by more than the
\* threshold.
IsGlitch(in, i, threshold) ==
    /\ (in[i] - in[i - 1] > threshold \/ in[i - 1] - in[i] > threshold)
    /\ (in[i] - in[i + 1] > threshold \/ in[i + 1] - in[i] > threshold)

\* C13: with a threshold above 0 and at least 3 samples the output has the
\* length of the input, keeps the first and the last sample, and at every
\* interior index holds the floor of the mean of the two input neighbours when
\* the input sample is a glitch among the input values, the input sample
\* otherwise.
C13_SinglePassOverOriginalValues ==
    (FilterCalled /\ exporter.glitch_threshold > 0 /\ Len(last_call.values) >= 3) =>
        LET in == last_call.values
            out == last_call.ret
            n == Len(in)
        IN /\ Len(out) = n
           /\ out[1] = in[1]
           /\ out[n] = in[n]
           /\ \A i \in 2 .. n - 1 :
                  out[i] = IF IsGlitch(in, i, exporter.glitch_threshold)
                           THEN (in[i - 1] + in[i + 1]) \div 2
                           ELSE in[i]

\* C13 witness: three adjacent glitches were each replaced by the mean of
\* their input neighbours.
C13_Witness ==
    /\ FilterCalled
    /\ exporter.glitch_threshold = 100
    /\ last_call.values = <<1000, 2000, 1000, 2000, 1000>>
    /\ last_call.ret = <<1000, 1000, 2000, 1000, 1000>>

\* C14: a list of fewer than 3 samples, and any list when glitch_threshold is
\* 0, is returned as it is.
C14_IdentityWhenShortOrDisabled ==
    (FilterCalled /\ (Len(last_call.values) < 3 \/ exporter.glitch_threshold = 0)) =>
        last_call.ret = last_call.values

\* C14 witness: with threshold 0 a list with a spike came back unchanged.
C14_Witness ==
    /\ FilterCalled
    /\ exporter.glitch_threshold = 0
    /\ last_call.values = <<1000, 2000, 1000>>
    /\ last_call.ret = last_call.values

\* The values read_signal has read from the file.
SignalValuesRead ==
    IF disk.kind = "text"
    THEN LET numbers == SelectSeq(disk.lines, LAMBDA line : line.kind = "number")
         IN [n \in DOMAIN numbers |-> IntOfFloat(numbers[n].tenths)]
    ELSE [n \in 1 .. Len(disk.bytes) \div 2 |->
             disk.bytes[2 * n - 1] + 256 * disk.bytes[2 * n]]

IsArchiveName(name) ==
    /\ Len(name) = 15
    /\ name[1] = "M"
    /\ \A k \in 2 .. 11 : name[k] \in {"0", "1", "2", "3", "4", "5", "6", "7", "8", "9"}
    /\ name[12] = "."
    /\ name[13] \in {"n", "N"}
    /\ name[14] \in {"d", "D"}
    /\ name[15] \in {"f", "F"}

\* C16: get_archive_start_time returns the number the 10 digits write when the
\* name is "M", 10 digits and ".ndf" in any letter case, and None for every
\* other name.
C16_TimestampOnlyFromTenDigits ==
    last_call.op = "get_archive_start_time" =>
        IF IsArchiveName(reader.filepath)
        THEN /\ last_call.ret # None
             /\ last_call.ret = IntOfDigits(SubSeq(reader.filepath, 2, 11))
        ELSE last_call.ret = None

\* C16 witness: M1555404530.NDF gave 1555404530.
C16_Witness ==
    /\ last_call.op = "get_archive_start_time"
    /\ reader.filepath = <<"M", "1", "5", "5", "5", "4", "0", "4", "5", "3", "0",
                           ".", "N", "D", "F">>
    /\ last_call.ret = 1555404530

(***************************************************************************)
(* Claims on the construction of an NDFReader (checked under SpecOpen).    *)
(***************************************************************************)
Opened == last_call.op = "NDFReader"

\* C19: NDFReader() on a file that exists completes whatever the file holds:
\* wrong magic bytes give a warning, a file without a creation date in its
\* metadata has the creation date "Unknown", a file shorter than the header is
\* read without header values; on a path without file it raises
\* FileNotFoundError.
C19_ContentNeverFailsConstruction ==
    Opened =>
        IF disk.exists
        THEN /\ last_call.raised = "None"
             /\ reader.constructed
             /\ (disk.size >= 16 /\ ~disk.magic)
                    => "Unexpected magic bytes" \in reader.warnings
             /\ disk.meta \in {"none", "no_date"} => get_creation_date(reader) = "Unknown"
             /\ reader.metadata.header_values = (disk.size >= 16)
        ELSE /\ last_call.raised = "FileNotFoundError"
             /\ ~reader.constructed

\* C19 witness: a file of 10 bytes, not the magic bytes, was opened.
C19_Witness ==
    /\ Opened
    /\ disk.exists
    /\ disk.size = 10
    /\ ~disk.magic
    /\ reader.constructed
    /\ ~reader.metadata.header_values
    /\ get_creation_date(reader) = "Unknown"

\* Whether construction takes the candidate offset c of the file.
Taken(c) ==
    /\ c < disk.size
    /\ non_zero_count(disk.regions[c]) > 100
    /\ ValidMessagesFrom(disk.regions[c].messages, 1) >= 5

\* C20: after construction data_start_offset is the smallest candidate offset
\* that is taken, 20480 when none is: it is never None and always one of
\* 512, 1024, 2048, 4096, 8192, 16384, 20480.
C20_FirstAcceptedCandidateOrFallback ==
    (Opened /\ reader.constructed) =>
        /\ reader.data_start_offset # None
        /\ reader.data_start_offset \in {512, 1024, 2048, 4096, 8192, 16384, 20480}
        /\ IF \E c \in CandidateSet : Taken(c)
           THEN /\ Taken(reader.data_start_offset)
                /\ \A c \in CandidateSet : Taken(c) => reader.data_start_offset <= c
           ELSE reader.data_start_offset = 20480

\* C20 witness: offsets 1024 and 4096 are both taken, 512 is not, and
\* data_start_offset is 1024.
C20_Witness ==
    /\ Opened
    /\ reader.constructed
    /\ ~Taken(512)
    /\ Taken(1024)
    /\ Taken(4096)
    /\ reader.data_start_offset = 1024

(***************************************************************************)
(* Claims on reading channels (checked under SpecReader).                  *)
(***************************************************************************)
\* The channel ids of the reader's cached grouping.
CachedChannels(r) ==
    {r.parsed_messages.value[i].channel : i \in DOMAIN r.parsed_messages.value}

\* The messages the reader's cached grouping holds.
CachedMessages(r) ==
    UNION {Range(r.parsed_messages.value[i].messages) : i \in DOMAIN r.parsed_messages.value}

\* C17: the telemetry stream is decoded at most once per reader, by the first
\* call of get_available_channels or read_channel_data; no later call decodes
\* again or replaces the grouping; and get_available_channels returns the
\* channel ids of the grouping in ascending order.
C17_ParsedAtMostOnce ==
    /\ [](/\ reader.parses <= 1
          /\ calls > 0 => (reader.parses = 1 /\ reader.parsed_messages.cached)
          /\ last_call.op = "get_available_channels" =>
                 /\ Range(last_call.ret) = CachedChannels(reader)
                 /\ \A a, b \in DOMAIN last_call.ret :
                        a < b => last_call.ret[a] < last_call.ret[b])
    /\ [][reader.parsed_messages.cached =>
              /\ reader'.parsed_messages.cached
              /\ reader'.parses = reader.parses
              /\ CachedChannels(reader') = CachedChannels(reader)
              /\ CachedMessages(reader') = CachedMessages(reader)]_vars

\* C17 witness: after two calls on a file with channels 5 and 1, in that
\* order, one pass was made and get_available_channels returned <<1, 5>>.
C17_Witness ==
    /\ calls = 2
    /\ reader.parses = 1
    /\ last_call.op = "get_available_channels"
    /\ last_call.ret = <<1, 5>>
    /\ reader.parsed_messages.value[1].channel = 5

\* C18: read_channel_data with sample_rate None returns, and its intervals
\* have the samples of one second at 128 Hz for channel 0 and at 512 Hz for
\* the other channels.
C18_NoneResolvesToChannelDefault ==
    (last_call.op = "read_channel_data" /\ last_call.sample_rate = None) =>
        /\ last_call.raised = "None"
        /\ \A n \in DOMAIN last_call.ret :
               Len(last_call.ret[n].samples)
                   = IF last_call.channel_num = 0 THEN 128 ELSE 512

(***************************************************************************)
(* Claims on the candidate offsets (checked under SpecProbe).              *)
(***************************************************************************)
\* The messages among the first ten read at candidate c that have a non-zero
\* byte and a timestamp strictly between 1000 and 65000.
PassingMessages(c) ==
    { i \in DOMAIN disk.regions[c].messages :
        LET msg == disk.regions[c].messages[i]
        IN /\ i <= 10
           /\ Len(msg) = 8
           /\ \E k \in 1 .. 8 : msg[k] # 0
           /\ msg[1] + 256 * msg[2] > 1000
           /\ msg[1] + 256 * msg[2] < 65000 }

\* Candidate c has at least least non-zero bytes among the 1024 read and at
\* least 5 passing messages.
Accepted(c, least) ==
    /\ non_zero_count(disk.regions[c]) >= least
    /\ Cardinality(PassingMessages(c)) >= 5

\* After construction data_start_offset is the first candidate that is
\* Accepted(c, least), and 20480 with a warning when there is none.
FirstAccepted(least) ==
    (Opened /\ reader.constructed) =>
        LET accepted == {c \in CandidateSet : Accepted(c, least)}
        IN IF accepted = {}
           THEN /\ reader.data_start_offset = 20480
                /\ "Could not find telemetry data section" \in reader.warnings
           ELSE /\ reader.data_start_offset \in accepted
                /\ \A c \in accepted : reader.data_start_offset <= c
                /\ "Could not find telemetry data section" \notin reader.warnings

\* C21 as stated: a candidate offset is accepted if and only if the 1024 bytes
\* read at it hold at least 100 non-zero bytes and at least 5 of the first 10
\* messages at it have a non-zero payload and a timestamp strictly between
\* 1000 and 65000.
C21_AcceptedWithAtLeast100NonZero == FirstAccepted(100)

\* C21 as amended: a candidate offset is accepted if and only if the 1024
\* bytes read at it hold more than 100 non-zero bytes (100 are not enough) and
\* at least 5 of the first 10 messages at it have a non-zero byte and a
\* timestamp strictly between 1000 and 65000.
C21_AcceptedWithMoreThan100NonZero == FirstAccepted(101)

\* C21 witness: offset 512 is taken with exactly 101 non-zero bytes and
\* exactly 5 passing messages, which follow 5 messages of timestamp 1000.
C21_Witness ==
    /\ Opened
    /\ reader.constructed
    /\ reader.data_start_offset = 512
    /\ non_zero_count(disk.regions[512]) = 101
    /\ PassingMessages(512) = 6 .. 10
    /\ \A i \in 1 .. 5 : disk.regions[512].messages[i] = <<232, 3, 0, 0, 1, 0, 0, 0>>

(***************************************************************************)
(* Claims on the intervals of read_channel_data (checked under            *)
(* SpecReader).                                                            *)
(***************************************************************************)
\* read_channel_data was called last, with a sample rate, and returned.
ReadReturned ==
    /\ last_call.op = "read_channel_data"
    /\ last_call.raised = "None"
    /\ last_call.sample_rate # None

\* The messages of channel c in the data section, in ascending order of their
\* timestamps, those of equal timestamps in the order of arrival.
ChannelMessages(c) ==
    LET IsOfChannel(m) == m.channel = c
    IN StableSortByKey(
           SelectSeq(ParseFrom(ReadsFrom(disk, reader.data_start_offset), 1), IsOfChannel),
           "timestamp")

\* The two samples of each of these messages.
DueSamples(c) ==
    LET msgs == ChannelMessages(c)
    IN Flatten([i \in DOMAIN msgs |-> msgs[i].samples])

\* The samples of all the intervals returned.
ReturnedSamples == Flatten([k \in DOMAIN last_call.ret |-> last_call.ret[k].samples])

\* The samples interval k gathers before it is padded or cut, when every
\* interval takes the messages that fill spi samples.
BufferOf(c, k, spi) ==
    LET per == IF spi <= 2 THEN 1 ELSE (spi + 1) \div 2
        due == DueSamples(c)
    IN SubSeq(due, 2 * per * (k - 1) + 1, Min(2 * per * k, Len(due)))

\* C22: every interval read_channel_data returns holds exactly spi samples:
\* what its messages give, cut to the first spi samples when that is more and
\* padded with its last value when that is less; a channel with a message has
\* at least one interval.
C22_IntervalsHoldExactlySpi ==
    ReadReturned =>
        LET spi == last_call.sample_rate * 1
            c == last_call.channel_num
        IN /\ \A k \in DOMAIN last_call.ret :
                   LET buffer == BufferOf(c, k, spi)
                       samples == last_call.ret[k].samples
                   IN /\ Len(samples) = spi
                      /\ buffer # <<>>
                      /\ \A i \in 1 .. spi :
                             samples[i] = IF i <= Len(buffer) THEN buffer[i]
                                          ELSE buffer[Len(buffer)]
           /\ ChannelMessages(c) # <<>> => Len(last_call.ret) >= 1

\* C22 witness: three messages of channel 1 read at 4 samples per interval
\* give a full interval and one padded with 20.
C22_Witness ==
    /\ ReadReturned
    /\ last_call.channel_num = 1
    /\ last_call.sample_rate = 4
    /\ last_call.ret = <<Interval(0, <<30, 40, 10, 20>>), Interval(1, <<10, 20, 20, 20>>)>>

\* C23: the k-th interval read_channel_data returns (k = 0, 1, 2, ...) starts
\* at k times the interval length of one second, whatever the timestamps of
\* the messages.
C23_StartTimesCountIntervals ==
    ReadReturned =>
        \A k \in DOMAIN last_call.ret : last_call.ret[k].start = (k - 1) * 1

\* C23 witness: three messages of channel 1, of timestamps 1, 2 and 2, read at
\* 2 samples per interval give intervals that start at 0, 1 and 2.
C23_Witness ==
    /\ ReadReturned
    /\ last_call.channel_num = 1
    /\ last_call.sample_rate = 2
    /\ last_call.ret = <<Interval(0, <<30, 40>>), Interval(1, <<10, 20>>),
                         Interval(2, <<10, 20>>)>>

\* The samples returned are the samples due for channel c followed by fewer
\* than spi repetitions of the last of them.
NoSampleLost(c, spi) ==
    LET due == DueSamples(c)
        all == ReturnedSamples
    IN /\ Len(all) >= Len(due)
       /\ Len(all) - Len(due) < spi
       /\ \A i \in DOMAIN all :
              all[i] = IF i <= Len(due) THEN due[i] ELSE due[Len(due)]

\* C24 as stated: for every spi >= 1 the samples of the intervals returned,
\* the padding of the last one removed, are the two samples of each message
\* of the channel in ascending order of timestamp: none is lost, none is
\* duplicated.
C24_NoSampleLostForAnySpi ==
    (ReadReturned /\ last_call.sample_rate >= 1) =>
        NoSampleLost(last_call.channel_num, last_call.sample_rate * 1)

\* C24 as amended: the same for every even spi >= 2.
C24_NoSampleLostForEvenSpi ==
    (ReadReturned /\ last_call.sample_rate >= 2 /\ last_call.sample_rate % 2 = 0) =>
        NoSampleLost(last_call.channel_num, last_call.sample_rate * 1)

\* C24 witness: the message of channel 5, of samples 65535 and 256, read at 4
\* samples per interval gives one interval padded with 256.
C24_Witness ==
    /\ ReadReturned
    /\ last_call.channel_num = 5
    /\ last_call.sample_rate = 4
    /\ last_call.ret = <<Interval(0, <<65535, 256, 256, 256>>)>>

(***************************************************************************)
(* Claims on the decoding of the messages (checked under SpecReader).      *)
(***************************************************************************)
\* floor((file_size - offset) / 8), and 0 when the offset is at or after the
\* end of the file.
WholeRecords ==
    IF reader.data_start_offset >= disk.size THEN 0
    ELSE (disk.size - reader.data_start_offset) \div 8

\* The n-th record after data_start_offset, decoded: timestamp
\* byte1 << 8 | byte0, channel identifier & 0x0F, type (identifier >> 4) & 0x0F
\* and two little-endian 16-bit samples.
Decoded(n) ==
    LET b == ReadsFrom(disk, reader.data_start_offset)[n]
        identifier == b[4] * 256 + b[3]
    IN [timestamp |-> b[2] * 256 + b[1],
        channel |-> identifier - 16 * (identifier \div 16),
        message_type |-> (identifier \div 16) - 16 * (identifier \div 256),
        samples |-> <<b[6] * 256 + b[5], b[8] * 256 + b[7]>>,
        raw_data |-> b]

\* The decoded records of channel c, in file order.
DecodedOfChannel(c) ==
    LET IsOfChannel(m) == m.channel = c
    IN SelectSeq([n \in 1 .. WholeRecords |-> Decoded(n)], IsOfChannel)

\* All the messages of the cached grouping.
AllCached == Flatten([i \in DOMAIN reader.parsed_messages.value |-> reader.parsed_messages.value[i].messages])

C26_CachedSeriesKeepsArrivalOrder ==
    /\ [](reader.parsed_messages.cached =>
              \A i \in DOMAIN reader.parsed_messages.value :
                  reader.parsed_messages.value[i].messages
                      = DecodedOfChannel(reader.parsed_messages.value[i].channel))
    /\ [][/\ (reader.parsed_messages.cached
                  => reader'.parsed_messages = reader.parsed_messages)
           /\ ((/\ last_call.op = "read_channel_data"
                /\ last_call'.op = "read_channel_data"
                /\ last_call'.channel_num = last_call.channel_num
                /\ last_call'.sample_rate = last_call.sample_rate)
                  => last_call'.ret = last_call.ret)]_vars

\* The archives that differ from the one on disk in the message type of one
\* record only.
TypeVariants ==
    { FileOf(disk.records_at,
             [disk.records EXCEPT ![n] = [@ EXCEPT ![3] = (@ % 16) + 16 * message_type]]) :
        n \in {i \in DOMAIN disk.records : Len(disk.records[i]) = 8},
        message_type \in {0, 1} }

\* C29: the message type has no influence on the output: an archive that
\* differs from the one read only in the 4-bit message type of its records
\* gives the same channel list and, for every channel and sample rate, the
\* same intervals.
C29_MessageTypeHasNoInfluence ==
    \A other \in TypeVariants :
        /\ last_call.op = "get_available_channels" =>
               get_available_channels(NDFReader(other).self, other).ret = last_call.ret
        /\ last_call.op = "read_channel_data" =>
               LET r == read_channel_data(NDFReader(other).self, other,
                                          last_call.channel_num, last_call.sample_rate)
               IN r.raised = last_call.raised /\ r.ret = last_call.ret

(***************************************************************************)
(* Claim on the sessions as a partition (checked under SpecGroup).         *)
(***************************************************************************)
\* The places of the returned sessions that hold the file of the given name.
PlacesOf(name) == {k \in DOMAIN GroupedFiles : GroupedFiles[k] = name}

\* C27: the sessions returned are a partition of the usable files: every
\* input file with a timestamp is in exactly one session, once; no file
\* without a timestamp is in a session; and no session is empty.
C27_SessionsPartitionUsableFiles ==
    (GroupCalled /\ GroupReturned) =>
        /\ \A i \in DOMAIN ndf_files :
               Cardinality(PlacesOf(ndf_files[i].name))
                   = IF ndf_files[i].ts # None THEN 1 ELSE 0
        /\ Len(GroupedFiles) = Cardinality({i \in DOMAIN ndf_files : ndf_files[i].ts # None})
        /\ \A s \in DOMAIN grouping.sessions : grouping.sessions[s] # <<>>

\* C27 witness: of three files the second has no timestamp; the third and
\* the first, in this order, are one session each.
C27_Witness ==
    /\ GroupCalled
    /\ GroupReturned
    /\ Len(ndf_files) = 3
    /\ ndf_files[2].ts = None
    /\ grouping.sessions = << <<3>>, <<1>> >>

(***************************************************************************)
(* Claim on a rejected export_multi_channel (checked under Spec).          *)
(***************************************************************************)
\* C28: a call of export_multi_channel that rejects its channel map (the map
\* is empty, or a channel has an empty list of intervals) raises ValueError
\* and changes nothing: no file is created, truncated or appended to, and the
\* exporter's start_time stays.
C28_RejectionChangesNothing ==
    [][(/\ last_call'.op = "export_multi_channel"
        /\ \/ last_call'.channel_data = <<>>
           \/ \E i \in DOMAIN last_call'.channel_data :
                  last_call'.channel_data[i].intervals = <<>>)
           => /\ last_call'.raised = "ValueError"
              /\ fs' = fs
              /\ exporter'.start_time = exporter.start_time]_vars

\* C28 witness: the second call is an export_multi_channel whose channel 0
\* has no interval, on a file that exists and an exporter whose start_time
\* is set.
C28_Witness ==
    /\ calls = 2
    /\ last_call.op = "export_multi_channel"
    /\ last_call.raised = "ValueError"
    /\ \E i \in DOMAIN last_call.channel_data : last_call.channel_data[i].intervals = <<>>
    /\ Exists(fs, last_call.output_file)
    /\ exporter.start_time # None

(***************************************************************************)
(* Claim on the files of a session (checked under SpecBulk).               *)
(***************************************************************************)
\* All the archives of the session were processed and none raised.
SessionDone == calls = Len(ndf_files) /\ last_call.raised = "None"

\* C30: when a session of several archives has been converted, every
\* E<channel>.txt of the session directory was created by the conversion of
\* the first archive and is in the list returned for the session; the later
\* archives have only appended to files that were there.
C30_FilesComeFromFirstArchive ==
    SessionDone =>
        \A f \in ChannelFiles :
            fs.files[f] # NoFile =>
                /\ written[f] = "first"
                /\ f \in Range(last_call.session_created_files)
====
